---- MODULE Spec2Model ----
(***************************************************************************)
(* A model of the annotation interchange code of labelme's conversation    *)
(* format support:                                                         *)
(*   labelme/conversation_format.py  (loader, exporters)                   *)
(*   labelme/vlm/utils.py            (detection conversion)                *)
(*                                                                         *)
(* Text is a sequence of tokens.  A token is a record [k, n]: k is the     *)
(* piece of text it stands for ("<p>", "</p>", "[", "]", ",", " ", "<", a  *)
(* word) and n is 0, except for a number token (k = "num"), whose n is the *)
(* value of the decimal literal in units of 1/Den.                         *)
(*                                                                         *)
(* Coordinates are exact rationals n/Den.  Den is three units per          *)
(* thousandth, so that rounding to three decimals never meets a tie and    *)
(* the binary rounding error of a float cannot change a printed digit.     *)
(***************************************************************************)
EXTENDS Integers, Sequences, FiniteSets, TLC

VARIABLES
    \* ---- _parse_gpt_annotations applied to a text
    gpt_response,            \* the text handed to the parser
    nchunks,                 \* how many pieces the text was built from
    annotations,             \* the parser's result
    parsePc,                 \* "input" | "done"
    \* ---- analyze_conversation_file applied to a turn sequence
    conversations,           \* the input turns
    stats,                   \* analyze_conversations' result
    grounding_conversations, \* separate_conversation_types' first result
    text_conversations,      \* separate_conversation_types' second result
    classPc,                 \* "input" | "done"
    \* ---- records -> shapes -> response text -> records
    records,                 \* the annotation records (normalized)
    img,                     \* [w, h]: the image size in pixels
    shapes,                  \* the labelme shapes made from the records
    origin,                  \* which conversion made the shapes
    response,                \* _format_annotations_in_response's outcome
    reparsed,                \* the parser's result on the response
    codecPc,                 \* "input" | "shapes" | "encoded" | "reparsed"
    \* ---- the exporters
    label_file,              \* the LabelFile handed to an exporter
    files,                   \* the output files: name -> content
    op,                      \* the exporter operation that ran ("none" before)
    ret,                     \* its return value
    include_text_conversations, \* the argument of ConversationFormatExporter.export
    \* ---- convert_directory_to_sharegpt.py
    input_files,             \* the JSON files under input_dir, in rglob order
    output_files,            \* output_dir: stem -> content (<<>> = no file)
    results,                 \* per input file: "skipped" | "converted" | "failed"
    success_count,           \* convert_directory's counter
    found_files,             \* json_files: the files the last run found
    runs,                    \* how many times convert_directory ran
    out_under_in,            \* whether output_dir lies under input_dir
    batchPc,                 \* "input" | "done"
    \* ---- detect_objects_with_vlm applied to a model answer
    raw_output,              \* the model's answer
    nparts,                  \* how many pieces the answer was built from
    img_shape,               \* [w, h] of the image
    in_size,                 \* [w, h] of the model's input
    detected,                \* the outcome of detect_objects_with_vlm
    detectPc,                \* "input" | "done"
    \* ---- _reconstruct_prompt_history applied to a turn sequence
    turns,                   \* the conversations handed to it
    npieces,                 \* how many pieces (pairs, single turns) it has
    history,                 \* the result: the prompt history
    historyPc,               \* "input" | "done"
    \* ---- is_conversation_format applied to a file
    conv_file,               \* the file
    is_conv,                 \* the result
    formatPc,                \* "input" | "done"
    \* ---- a conversation document loaded, exported and loaded again
    document,                \* the conversation document on disk
    image_on_disk,           \* whether the image it names can be found
    loaded_file,             \* the label file of the last load, None before it
    load_log,                \* per load: the labels and kinds of the shapes
    export_log,              \* per export: the number of turns written
    tripPc,                  \* "input" | "loaded" | "exported" | "failed"
    \* ---- VlmCategoriesWidget: the caption list and the prompt history
    _caption_history,        \* the rows of the QListWidget: the prompts shown
    current_row,             \* the selected row, counted from 1; 0 for none (-1)
    _prompt_history,         \* the internal list of history entries
    set_argument,            \* the list given to set_prompt_history, if it ran last
    widgetOp,                \* the operation that ran last
    \* ---- MainWindow: the current task and the shapes of the label list
    _current_vlm_task,       \* "Detection" | "OCR" | "Caption"
    labelList,               \* the items of the label list, each with its shape
    docks_visible,           \* whether the label dock and the shape dock are shown
    windowOp                 \* the operation that ran last

parseVars  == <<gpt_response, nchunks, annotations, parsePc>>
classVars  == <<conversations, stats, grounding_conversations,
                text_conversations, classPc>>
codecVars  == <<records, img, shapes, origin, response, reparsed, codecPc>>
exportVars == <<label_file, files, op, ret, include_text_conversations>>
batchVars  == <<input_files, output_files, results, success_count,
                found_files, runs, out_under_in, batchPc>>
detectVars == <<raw_output, nparts, img_shape, in_size, detected,
                detectPc>>
historyVars == <<turns, npieces, history, historyPc>>
formatVars == <<conv_file, is_conv, formatPc>>
tripVars == <<document, image_on_disk, loaded_file, load_log, export_log, tripPc>>
widgetVars == <<_caption_history, current_row, _prompt_history, set_argument, widgetOp>>
windowVars == <<_current_vlm_task, labelList, docks_visible, windowOp>>
vars       == <<parseVars, classVars, codecVars, exportVars, batchVars,
                detectVars, historyVars, formatVars,
                tripVars,
                widgetVars,
                windowVars>>

\* what the steps of one part leave alone
parseRest  == <<classVars, codecVars, exportVars, batchVars, detectVars,
                historyVars, formatVars,
                tripVars,
                widgetVars,
                windowVars>>
classRest  == <<parseVars, codecVars, exportVars, batchVars, detectVars,
                historyVars, formatVars,
                tripVars,
                widgetVars,
                windowVars>>
codecRest  == <<parseVars, classVars, exportVars, batchVars, detectVars,
                historyVars, formatVars,
                tripVars,
                widgetVars,
                windowVars>>
exportRest == <<parseVars, classVars, codecVars, batchVars, detectVars,
                historyVars, formatVars,
                tripVars,
                widgetVars,
                windowVars>>
batchRest  == <<parseVars, classVars, codecVars, exportVars, detectVars,
                historyVars, formatVars,
                tripVars,
                widgetVars,
                windowVars>>
detectRest == <<parseVars, classVars, codecVars, exportVars, batchVars,
                historyVars, formatVars,
                tripVars,
                widgetVars,
                windowVars>>
historyRest == <<parseVars, classVars, codecVars, exportVars, batchVars,
                 detectVars, formatVars,
                tripVars,
                widgetVars,
                windowVars>>
formatRest == <<parseVars, classVars, codecVars, exportVars, batchVars,
                detectVars, historyVars,
                tripVars,
                widgetVars,
                windowVars>>
tripRest == <<parseVars, classVars, codecVars, exportVars, batchVars,
                detectVars, historyVars,
                formatVars,
                widgetVars,
                windowVars>>
widgetRest == <<parseVars, classVars, codecVars, exportVars, batchVars,
                detectVars, historyVars,
                formatVars,
                tripVars,
                windowVars>>
windowRest == <<parseVars, classVars, codecVars, exportVars, batchVars,
                detectVars, historyVars,
                formatVars,
                tripVars,
                widgetVars>>

-----------------------------------------------------------------------------
(* Bounds of the model *)

MaxChunks == 2
MaxCoords == 7
MaxTurns == 3
MaxRecords == 2
MaxDim == 2
MaxShapes == 2
MaxHistory == 2
MaxFiles == 2
MaxItems == 2
MaxUnits == 2
MaxRuns == 2

\* units per 1.0, and per 0.001
Den == 3 * 1000
Milli == Den \div 1000

-----------------------------------------------------------------------------
(* Tokens and sequences *)

T(s) == [k |-> s, n |-> 0]
Num(v) == [k |-> "num", n |-> v]

Range(s) == {s[i] : i \in DOMAIN s}

RECURSIVE Flatten(_)
Flatten(ss) ==
    IF ss = <<>> THEN <<>> ELSE Head(ss) \o Flatten(Tail(ss))

RECURSIVE SumSeq(_)
SumSeq(s) == IF s = <<>> THEN 0 ELSE Head(s) + SumSeq(Tail(s))

\* the indices of s, in order, whose element satisfies the set membership
RECURSIVE Indices(_, _, _)
Indices(s, i, good) ==
    IF i > Len(s) THEN <<>>
    ELSE (IF i \in good THEN <<i>> ELSE <<>>) \o Indices(s, i + 1, good)

\* str.strip(): whitespace removed at both ends
RECURSIVE Strip(_)
Strip(s) ==
    IF s = <<>> THEN s
    ELSE IF Head(s).k = " " THEN Strip(Tail(s))
    ELSE IF s[Len(s)].k = " " THEN Strip(SubSeq(s, 1, Len(s) - 1))
    ELSE s

\* str.split(','): "a,,b" gives 'a', '', 'b'; a text without comma gives itself
RECURSIVE Split(_)
Split(s) ==
    IF \E i \in DOMAIN s : s[i].k = ","
    THEN LET c == CHOOSE i \in DOMAIN s :
                    /\ s[i].k = ","
                    /\ \A j \in 1..(i - 1) : s[j].k # ","
         IN  <<SubSeq(s, 1, c - 1)>> \o Split(SubSeq(s, c + 1, Len(s)))
    ELSE <<s>>

\* float(x): a single decimal literal parses, anything else is a ValueError
FloatOk(piece) == Len(piece) = 1 /\ piece[1].k = "num"
FloatVal(piece) == piece[1].n

-----------------------------------------------------------------------------
(* ConversationFormatLoader._parse_gpt_annotations *)

\* the tokens whose text begins with '<'
Lt == {"<p>", "</p>", "<"}

\* the first position >= i of s holding a token of kinds ks (0: none)
FirstOf(s, i, ks) ==
    IF \E j \in i..Len(s) : s[j].k \in ks
    THEN CHOOSE j \in i..Len(s) :
            /\ s[j].k \in ks
            /\ \A m \in i..(j - 1) : s[m].k \notin ks
    ELSE 0

\* annotation_pattern = <p>([^<]+)</p>\[([^\]]+)\] tried at position i
MatchAt(s, i) ==
    LET j == FirstOf(s, i + 1, Lt)
        c == IF j = 0 THEN 0 ELSE FirstOf(s, j + 2, {"]"})
    IN  IF /\ s[i].k = "<p>"
           /\ j > i + 1
           /\ s[j].k = "</p>"
           /\ j + 1 <= Len(s)
           /\ s[j + 1].k = "["
           /\ c > j + 2
        THEN [ok |-> TRUE, label |-> SubSeq(s, i + 1, j - 1),
              coord_str |-> SubSeq(s, j + 2, c - 1), end |-> c]
        ELSE [ok |-> FALSE, label |-> <<>>, coord_str |-> <<>>, end |-> i]

\* annotation_pattern.findall: the non-overlapping matches, left to right
RECURSIVE FindAllFrom(_, _)
FindAllFrom(s, i) ==
    IF i > Len(s) THEN <<>>
    ELSE LET m == MatchAt(s, i)
         IN  IF m.ok
             THEN <<[label |-> m.label, coord_str |-> m.coord_str]>>
                      \o FindAllFrom(s, m.end + 1)
             ELSE FindAllFrom(s, i + 1)

findall(s) == FindAllFrom(s, 1)

\* the pieces of a match's bracket, each stripped
CoordPieces(m) ==
    LET ps == Split(m.coord_str) IN [i \in DOMAIN ps |-> Strip(ps[i])]

\* the annotation type of a coordinate count ("none": rejected)
AnnotationTypeNoParity(n) ==
    IF n = 2 THEN "point"
    ELSE IF n = 4 THEN "bbox"
    ELSE IF n >= 6 THEN "polygon"
    ELSE "none"

AnnotationType(n) ==
    IF n = 2 THEN "point"
    ELSE IF n = 4 THEN "bbox"
    ELSE IF n >= 6 /\ n % 2 = 0 THEN "polygon"
    ELSE "none"

\* the loop over the matches: a ValueError or an unrecognized count skips
\* the match (continue)
RECURSIVE ParseLoopAbort(_, _, _)
ParseLoopAbort(ms, i, acc) ==
    IF i > Len(ms) THEN acc
    ELSE LET ps == CoordPieces(ms[i])
         IN  IF \E p \in DOMAIN ps : ~FloatOk(ps[p])
             THEN acc
             ELSE LET coords == [p \in DOMAIN ps |-> FloatVal(ps[p])]
                      ann_type == AnnotationType(Len(coords))
                  IN  IF ann_type = "none"
                      THEN ParseLoopAbort(ms, i + 1, acc)
                      ELSE ParseLoopAbort(ms, i + 1, Append(acc,
                               [label |-> Strip(ms[i].label),
                                coordinates |-> coords,
                                annotation_type |-> ann_type]))

RECURSIVE ParseLoop(_, _, _)
ParseLoop(ms, i, acc) ==
    IF i > Len(ms) THEN acc
    ELSE LET ps == CoordPieces(ms[i])
         IN  IF \E p \in DOMAIN ps : ~FloatOk(ps[p])
             THEN ParseLoop(ms, i + 1, acc)
             ELSE LET coords == [p \in DOMAIN ps |-> FloatVal(ps[p])]
                      ann_type == AnnotationType(Len(coords))
                  IN  IF ann_type = "none"
                      THEN ParseLoop(ms, i + 1, acc)
                      ELSE ParseLoop(ms, i + 1, Append(acc,
                               [label |-> Strip(ms[i].label),
                                coordinates |-> coords,
                                annotation_type |-> ann_type]))

parse_gpt_annotations(s) == ParseLoop(findall(s), 1, <<>>)

-----------------------------------------------------------------------------
(* The texts the parser is applied to *)

TagLabels ==
    { <<T("a")>>, <<T(" "), T("b"), T(" ")>>, <<T(" ")>> }

\* n well-formed coordinates, the i-th being i/10
NumberList(n) ==
    Flatten([i \in 1..(2 * n - 1) |->
        IF i % 2 = 1 THEN <<Num(((i + 1) \div 2) * 100 * Milli)>>
        ELSE <<T(",")>>])

Tag(label, coord_str) ==
    <<T("<p>")>> \o label \o <<T("</p>"), T("[")>> \o coord_str \o <<T("]")>>

\* brackets that are not a plain number list
OddBrackets ==
    { <<Num(300), T(","), T("x")>>,                       \* a token no float
      <<Num(300), T(","), Num(600), T(",")>>,             \* an empty piece
      <<T(" "), Num(300), T(" "), T(","), T(" "), Num(600)>>,  \* padded
      <<Num(300), T(" "), Num(600)>> }                    \* two numbers, no comma

\* prose, stray pieces of a tag, and a tag whose bracket is never closed
ProseChunks ==
    { <<T("x")>>, <<T("<")>>, <<T("<p>")>>, <<T("]")>>,
      <<T("<p>"), T("a"), T("</p>"), T("["), Num(300)>> }

AppendTag ==
    /\ parsePc = "input"
    /\ nchunks < MaxChunks
    /\ \E label \in TagLabels, n \in 1..MaxCoords :
          gpt_response' = gpt_response \o Tag(label, NumberList(n))
    /\ nchunks' = nchunks + 1
    /\ UNCHANGED <<annotations, parsePc>>
    /\ UNCHANGED parseRest

AppendOddTag ==
    /\ parsePc = "input"
    /\ nchunks < MaxChunks
    /\ \E b \in OddBrackets :
          gpt_response' = gpt_response \o Tag(<<T("a")>>, b)
    /\ nchunks' = nchunks + 1
    /\ UNCHANGED <<annotations, parsePc>>
    /\ UNCHANGED parseRest

AppendProse ==
    /\ parsePc = "input"
    /\ nchunks < MaxChunks
    /\ \E c \in ProseChunks : gpt_response' = gpt_response \o c
    /\ nchunks' = nchunks + 1
    /\ UNCHANGED <<annotations, parsePc>>
    /\ UNCHANGED parseRest

\* loader._parse_gpt_annotations(gpt_response)
ParseResponse ==
    /\ parsePc = "input"
    /\ annotations' = parse_gpt_annotations(gpt_response)
    /\ parsePc' = "done"
    /\ UNCHANGED <<gpt_response, nchunks>>
    /\ UNCHANGED parseRest

ParseInit ==
    /\ gpt_response = <<>>
    /\ nchunks = 0
    /\ annotations = <<>>
    /\ parsePc = "input"

-----------------------------------------------------------------------------
(* ConversationFormatLoader.analyze_conversations,                         *)
(* separate_conversation_types and analyze_conversation_file               *)

\* for conv in conversations: a gpt turn counts as grounding when its text
\* has annotations, else as pure text
RECURSIVE AnalyzeLoop(_, _, _)
AnalyzeLoop(convs, i, st) ==
    IF i > Len(convs) THEN st
    ELSE IF convs[i].from = "gpt"
    THEN LET anns == parse_gpt_annotations(convs[i].value)
         IN  IF anns # <<>>
             THEN AnalyzeLoop(convs, i + 1,
                    [st EXCEPT !.grounding_conversations = @ + 1,
                               !.total_annotations = @ + Len(anns)])
             ELSE AnalyzeLoop(convs, i + 1,
                    [st EXCEPT !.pure_text_conversations = @ + 1])
    ELSE AnalyzeLoop(convs, i + 1, st)

analyze_conversations(convs) ==
    AnalyzeLoop(convs, 1,
        [total_conversations |-> Len(convs), grounding_conversations |-> 0,
         pure_text_conversations |-> 0, total_annotations |-> 0])

\* the while loop of separate_conversation_types (i counts from 1 here)
RECURSIVE SeparateLoopDropLast(_, _, _, _)
SeparateLoopDropLast(convs, i, g, t) ==
    IF i > Len(convs) THEN [grounding |-> g, text |-> t]
    ELSE IF i + 1 <= Len(convs)
    THEN IF convs[i].from = "human" /\ convs[i + 1].from = "gpt"
         THEN IF parse_gpt_annotations(convs[i + 1].value) # <<>>
              THEN SeparateLoopDropLast(convs, i + 2,
                       g \o <<convs[i], convs[i + 1]>>, t)
              ELSE SeparateLoopDropLast(convs, i + 2,
                       g, t \o <<convs[i], convs[i + 1]>>)
         ELSE SeparateLoopDropLast(convs, i + 1, g, Append(t, convs[i]))
    ELSE SeparateLoopDropLast(convs, i + 1, g, t)

RECURSIVE SeparateLoop(_, _, _, _)
SeparateLoop(convs, i, g, t) ==
    IF i > Len(convs) THEN [grounding |-> g, text |-> t]
    ELSE IF i + 1 <= Len(convs)
    THEN IF convs[i].from = "human" /\ convs[i + 1].from = "gpt"
         THEN IF parse_gpt_annotations(convs[i + 1].value) # <<>>
              THEN SeparateLoop(convs, i + 2,
                       g \o <<convs[i], convs[i + 1]>>, t)
              ELSE SeparateLoop(convs, i + 2,
                       g, t \o <<convs[i], convs[i + 1]>>)
         ELSE SeparateLoop(convs, i + 1, g, Append(t, convs[i]))
    ELSE SeparateLoop(convs, i + 1, g, Append(t, convs[i]))

separate_conversation_types(convs) == SeparateLoop(convs, 1, <<>>, <<>>)

\* the texts of the turns
TurnTexts ==
    { <<T("x")>>,
      <<T("x")>> \o Tag(<<T("a")>>, NumberList(2)),
      Tag(<<T("a")>>, NumberList(4)) \o <<T("x")>>
          \o Tag(<<T("b")>>, NumberList(6)),
      Tag(<<T("a")>>, NumberList(3)) }

Speakers == {"human", "gpt", "system"}

\* a turn of the input document; id is its position, which tells two equal
\* turns apart
AppendTurn ==
    /\ classPc = "input"
    /\ Len(conversations) < MaxTurns
    /\ \E f \in Speakers, v \in TurnTexts :
          conversations' = Append(conversations,
              [id |-> Len(conversations) + 1, from |-> f, value |-> v])
    /\ UNCHANGED <<stats, grounding_conversations, text_conversations, classPc>>
    /\ UNCHANGED classRest

\* analyze_conversation_file: both analyses of the document's turns
AnalyzeFile ==
    /\ classPc = "input"
    /\ stats' = analyze_conversations(conversations)
    /\ LET r == separate_conversation_types(conversations)
       IN  /\ grounding_conversations' = r.grounding
           /\ text_conversations' = r.text
    /\ classPc' = "done"
    /\ UNCHANGED conversations
    /\ UNCHANGED classRest

ClassInit ==
    /\ conversations = <<>>
    /\ stats = [total_conversations |-> 0, grounding_conversations |-> 0,
                pure_text_conversations |-> 0, total_annotations |-> 0]
    /\ grounding_conversations = <<>>
    /\ text_conversations = <<>>
    /\ classPc = "input"

-----------------------------------------------------------------------------
(* ConversationFormatLoader._convert_annotation_to_shape                   *)
(* A pixel coordinate is kept in units of 1/Den pixel.                     *)

\* the points of a coordinate list: x scaled by the width, y by the height
PairPoints(coords, xs, ys) ==
    [p \in 1..(Len(coords) \div 2) |->
        <<coords[2 * p - 1] * xs, coords[2 * p] * ys>>]

ShapeTypeOf(annotation_type) ==
    CASE annotation_type = "point" -> "point"
      [] annotation_type = "bbox" -> "rectangle"
      [] annotation_type = "polygon" -> "polygon"

convert_annotation_to_shape_by_width(annotation, img_width, img_height) ==
    [label |-> annotation.label,
     points |-> PairPoints(annotation.coordinates, img_width, img_width),
     shape_type |-> ShapeTypeOf(annotation.annotation_type)]

convert_annotation_to_shape(annotation, img_width, img_height) ==
    [label |-> annotation.label,
     points |-> PairPoints(annotation.coordinates, img_width, img_height),
     shape_type |-> ShapeTypeOf(annotation.annotation_type)]

-----------------------------------------------------------------------------
(* vlm/utils.py BboxDetection and convert_detections_to_labelme_shapes      *)

\* Python's None: a record no size and no number token equals
None == [none |-> TRUE]

BboxDetection(bbox, label, confidence, description) ==
    [bbox |-> bbox, label |-> label, confidence |-> confidence,
     description |-> description]

\* int(): truncation toward zero of a / b, b > 0
Trunc(a, b) == IF a >= 0 THEN a \div b ELSE -((-a) \div b)

\* int(x * img_width): x in units of 1/Den
IntPixel(c, size) == Trunc(c * size, Den)

\* int(x / input_width * img_width): x in units of 1/Den
ScalePixel(c, input_size, size) == Trunc(c * size, input_size * Den)

Min2(a, b) == IF a > b THEN b ELSE a
Max2(a, b) == IF a > b THEN a ELSE b

\* the loop body, with one test for both axes
DetectionToShapeSwapBoth(detection, img_width, img_height, model_input_size, normalized_coords) ==
    LET x(c) == IF normalized_coords THEN IntPixel(c, img_width)
                ELSE ScalePixel(c, model_input_size.w, img_width)
        y(c) == IF normalized_coords THEN IntPixel(c, img_height)
                ELSE ScalePixel(c, model_input_size.h, img_height)
        abs_x1 == x(detection.bbox[1])
        abs_y1 == y(detection.bbox[2])
        abs_x2 == x(detection.bbox[3])
        abs_y2 == y(detection.bbox[4])
        swap == abs_x1 > abs_x2
    IN  [label |-> detection.label,
         points |-> IF swap
                    THEN << <<abs_x2 * Den, abs_y2 * Den>>,
                            <<abs_x1 * Den, abs_y1 * Den>> >>
                    ELSE << <<abs_x1 * Den, abs_y1 * Den>>,
                            <<abs_x2 * Den, abs_y2 * Den>> >>,
         shape_type |-> "rectangle"]

\* the loop body: scale, truncate, then order each axis on its own
DetectionToShape(detection, img_width, img_height, model_input_size, normalized_coords) ==
    LET x(c) == IF normalized_coords THEN IntPixel(c, img_width)
                ELSE ScalePixel(c, model_input_size.w, img_width)
        y(c) == IF normalized_coords THEN IntPixel(c, img_height)
                ELSE ScalePixel(c, model_input_size.h, img_height)
        abs_x1 == x(detection.bbox[1])
        abs_y1 == y(detection.bbox[2])
        abs_x2 == x(detection.bbox[3])
        abs_y2 == y(detection.bbox[4])
    IN  [label |-> detection.label,
         points |-> << <<Min2(abs_x1, abs_x2) * Den, Min2(abs_y1, abs_y2) * Den>>,
                       <<Max2(abs_x1, abs_x2) * Den, Max2(abs_y1, abs_y2) * Den>> >>,
         shape_type |-> "rectangle"]

\* ok = FALSE: an exception (a bbox that does not unpack into four values,
\* or model_input_size missing in the model-input-space mode)
convert_detections_to_labelme_shapes(detections, image_shape, model_input_size, normalized_coords) ==
    IF \/ \E i \in DOMAIN detections : Len(detections[i].bbox) # 4
       \/ detections # <<>> /\ ~normalized_coords /\ model_input_size = None
    THEN [ok |-> FALSE, shapes |-> <<>>]
    ELSE [ok |-> TRUE,
          shapes |-> [i \in DOMAIN detections |->
                         DetectionToShape(detections[i], image_shape.w,
                                          image_shape.h, model_input_size,
                                          normalized_coords)]]

-----------------------------------------------------------------------------
(* ConversationFormatExporter._format_annotations_in_response              *)

SupportedTypes == {"point", "rectangle", "polygon"}

\* x_norm = x / img_width, y_norm = y / img_height, in the order of the
\* points: a point gives 2 values, a rectangle 4, a polygon 2 per point
NormalizedCoords(shape, img_width, img_height) ==
    LET n == IF shape.shape_type = "point" THEN 1
             ELSE IF shape.shape_type = "rectangle" THEN 2
             ELSE Len(shape.points)
    IN  [c \in 1..(2 * n) |->
            IF c % 2 = 1
            THEN shape.points[(c + 1) \div 2][1] \div img_width
            ELSE shape.points[c \div 2][2] \div img_height]

\* f"{v:.3f}": the nearest multiple of 0.001
Round3(v) == ((2 * v + Milli) \div (2 * Milli)) * Milli

RECURSIVE Join(_, _)
Join(parts, sep) ==
    IF parts = <<>> THEN <<>>
    ELSE IF Len(parts) = 1 THEN parts[1]
    ELSE parts[1] \o sep \o Join(Tail(parts), sep)

CoordStr(shape, img_width, img_height) ==
    LET cs == NormalizedCoords(shape, img_width, img_height)
    IN  Join([c \in DOMAIN cs |-> <<Num(Round3(cs[c]))>>], <<T(",")>>)

\* the rendered parts, one per shape of a supported type
RECURSIVE RenderParts(_, _, _)
RenderParts(shps, img_width, img_height) ==
    IF shps = <<>> THEN <<>>
    ELSE (IF Head(shps).shape_type \in SupportedTypes
          THEN <<Tag(Head(shps).label,
                     CoordStr(Head(shps), img_width, img_height))>>
          ELSE <<>>)
         \o RenderParts(Tail(shps), img_width, img_height)

NothingSentence ==
    <<T("I don't see any specific objects to detect in this image.")>>

\* ok is FALSE when the call raises (parts[-1] of an empty list)
format_annotations_in_response(shps, img_width, img_height) ==
    IF shps = <<>> THEN [ok |-> TRUE, text |-> NothingSentence]
    ELSE LET parts == RenderParts(shps, img_width, img_height)
         IN  IF Len(parts) = 1
             THEN [ok |-> TRUE,
                   text |-> <<T("There is ")>> \o parts[1]
                                \o <<T(" in the image.")>>]
             ELSE IF Len(parts) = 2
             THEN [ok |-> TRUE,
                   text |-> <<T("There are ")>> \o parts[1] \o <<T(" and ")>>
                                \o parts[2] \o <<T(" in the image.")>>]
             ELSE IF parts = <<>>
             THEN [ok |-> FALSE, text |-> <<>>]
             ELSE [ok |-> TRUE,
                   text |-> <<T("There are ")>>
                       \o Join(SubSeq(parts, 1, Len(parts) - 1), <<T(", ")>>)
                       \o <<T(", and ")>> \o parts[Len(parts)]
                       \o <<T(" in the image.")>>]

-----------------------------------------------------------------------------
(* Records to shapes to text and back *)

RecordLabels == { <<T("a")>>, <<>> }

RecordCoords ==
    { <<1234, 2500>>,
      <<100, 200, 2000, 2999>>,
      <<2000, 2999, 100, 200>>,
      <<0, 1, 1500, 1501, 3000, 2>> }

\* an annotation record, as the parser builds them
AddRecord ==
    /\ codecPc = "input"
    /\ Len(records) < MaxRecords
    /\ \E l \in RecordLabels, cs \in RecordCoords :
          records' = Append(records,
              [label |-> l, coordinates |-> cs,
               annotation_type |-> AnnotationType(Len(cs))])
    /\ UNCHANGED <<img, shapes, origin, response, reparsed, codecPc>>
    /\ UNCHANGED codecRest

\* _create_label_file_from_data: every annotation becomes a shape
LoadShapes ==
    /\ codecPc = "input"
    /\ shapes' = [i \in DOMAIN records |->
                    convert_annotation_to_shape(records[i], img.w, img.h)]
    /\ origin' = "loader"
    /\ codecPc' = "shapes"
    /\ UNCHANGED <<records, img, response, reparsed>>
    /\ UNCHANGED codecRest

\* convert_detections_to_labelme_shapes on boxes with normalized
\* coordinates (x1, y1, x2, y2 = detection.bbox needs four values)
ConvertDetections ==
    /\ codecPc = "input"
    /\ \A i \in DOMAIN records : Len(records[i].coordinates) = 4
    /\ shapes' = convert_detections_to_labelme_shapes(
                      [i \in DOMAIN records |->
                          BboxDetection(records[i].coordinates,
                                        records[i].label, None, <<>>)],
                      img, None, TRUE).shapes
    /\ origin' = "detections"
    /\ codecPc' = "shapes"
    /\ UNCHANGED <<records, img, response, reparsed>>
    /\ UNCHANGED codecRest

\* the user draws one more shape on the canvas; a circle is a labelme
\* shape type the response grammar does not render
DrawShape ==
    /\ codecPc = "shapes"
    /\ Len(shapes) = Len(records)
    /\ \E ty \in {"circle", "rectangle"} :
          shapes' = Append(shapes,
              [label |-> <<T("a")>>,
               points |-> << <<0, 0>>, <<Den * img.w, Den * img.h>> >>,
               shape_type |-> ty])
    /\ UNCHANGED <<records, img, origin, response, reparsed, codecPc>>
    /\ UNCHANGED codecRest

\* _format_annotations_in_response(shapes, img_width, img_height)
Encode ==
    /\ codecPc = "shapes"
    /\ response' = format_annotations_in_response(shapes, img.w, img.h)
    /\ codecPc' = "encoded"
    /\ UNCHANGED <<records, img, shapes, origin, reparsed>>
    /\ UNCHANGED codecRest

\* the response text is parsed again
Reparse ==
    /\ codecPc = "encoded"
    /\ response.ok
    /\ reparsed' = parse_gpt_annotations(response.text)
    /\ codecPc' = "reparsed"
    /\ UNCHANGED <<records, img, shapes, origin, response>>
    /\ UNCHANGED codecRest

CodecInit ==
    /\ records = <<>>
    /\ img \in [w : 1..MaxDim, h : 1..MaxDim]
    /\ shapes = <<>>
    /\ origin = "none"
    /\ response = [ok |-> TRUE, text |-> <<>>]
    /\ reparsed = <<>>
    /\ codecPc = "input"

-----------------------------------------------------------------------------
(* The exporters: ConversationFormatExporter and ShareGPTExporter          *)
(*                                                                         *)
(* A file's content is the sequence of JSON documents written to it; <<>>  *)
(* is a file that does not exist.  A turn's value is a token sequence.     *)

\* img_pil.size of the label file's image data
ExportImg == [w |-> 4, h |-> 4]

ImagePath == "img.jpg"

FileNames ==
    { <<"conversation", 0>>, <<"single", 0>>, <<"sharegpt", 0>>,
      <<"detection", 0>>, <<"ocr", 0>> }
        \cup { <<"caption", i>> : i \in 1..MaxHistory }

NoFiles == [f \in FileNames |-> <<>>]

BoolRet(b) == [kind |-> "bool", b |-> b, n |-> 0]
IntRet(n) == [kind |-> "int", b |-> FALSE, n |-> n]

\* The k-th `with open(..., 'w')` of an export either writes its file or
\* raises OSError before the file exists; fail_at names the write that
\* raises, 0 when none does.  The except clause of the export then returns
\* its failure value.
MaxWrites == MaxHistory + 2

\* `if not image_data: return False` (0 for export_to_directory)
HasImageDataUnchecked(lf) == TRUE

HasImageData(lf) == lf.imageData

Turn(f, v) == [from |-> f, value |-> v]
TurnA(f, v, a) == [from |-> f, value |-> v, attribute |-> a]

\* the shapes whose field satisfies a test, in order
ShapesOfTask(shps, task) == SelectSeq(shps, LAMBDA sh : sh.vlm_task = task)

\* a prompt-output pair of the caption history that has both texts
ValidCaption(entry) ==
    Strip(entry.prompt) # <<>> /\ Strip(entry.description) # <<>>

CaptionTurns(entry) ==
    <<Turn("human", Strip(entry.prompt)), Turn("gpt", Strip(entry.description))>>

\* ShareGPTExporter._format_shapes_as_json: one bbox_2d object per
\* rectangle and per polygon, joined by commas; "" for no shape
BBoxOf(shape) ==
    IF shape.shape_type = "rectangle"
    THEN <<shape.points[1][1], shape.points[1][2],
           shape.points[2][1], shape.points[2][2]>>
    ELSE LET xs == {shape.points[i][1] : i \in DOMAIN shape.points}
             ys == {shape.points[i][2] : i \in DOMAIN shape.points}
             min(S) == CHOOSE v \in S : \A u \in S : v <= u
             max(S) == CHOOSE v \in S : \A u \in S : v >= u
         IN  <<min(xs), min(ys), max(xs), max(ys)>>

JsonObject(shape, img_width, img_height) ==
    LET b == BBoxOf(shape)
    IN  <<T("{\"bbox_2d\": ["),
          Num(Round3(b[1] \div img_width)), T(","),
          Num(Round3(b[2] \div img_height)), T(","),
          Num(Round3(b[3] \div img_width)), T(","),
          Num(Round3(b[4] \div img_height)),
          T("],\"label\": \"")>> \o shape.label \o <<T("\"}")>>

HasJsonObject(shape) ==
    \/ shape.shape_type = "rectangle" /\ Len(shape.points) >= 2
    \/ shape.shape_type = "polygon" /\ Len(shape.points) >= 3

format_shapes_as_json(shps, img_width, img_height) ==
    LET boxed == SelectSeq(shps, HasJsonObject)
    IN  Join([i \in DOMAIN boxed |-> JsonObject(boxed[i], img_width, img_height)],
             <<T(",")>>)

\* the labels of shapes as the text of a prompt: list(set(...)) joined in
\* the set's iteration order, which is one of the orders of the labels
LabelOrders(shps) ==
    LET labels == {shps[i].label : i \in DOMAIN shps}
    IN  {o \in [1..Cardinality(labels) -> labels] :
            \A a, b \in DOMAIN o : a # b => o[a] # o[b]}

ObjectsText(order) == Join(order, <<T(", ")>>)

OutlinePrompt(order) ==
    <<T("Outline the position of each ")>> \o ObjectsText(order)
        \o <<T(" and output all the coordinates in JSON format {\"bbox_2d\": [x1, y1, x2, y2], \"label\": \"label\"}")>>

-----------------------------------------------------------------------------
(* ConversationFormatExporter.export *)

\* _generate_grounding_conversation: the prompt names the label when all
\* shapes share one, and the kind of annotation
GroundingPrompt(shps) ==
    LET labels == {shps[i].label : i \in DOMAIN shps}
        types == {shps[i].shape_type : i \in DOMAIN shps}
        annotation_type ==
            IF "rectangle" \in types THEN "bounding boxes"
            ELSE IF "polygon" \in types THEN "polygons"
            ELSE IF "point" \in types THEN "points"
            ELSE "annotations"
        what == IF Cardinality(labels) = 1
                THEN CHOOSE l \in labels : TRUE
                ELSE <<T("objects")>>
    IN  <<T("Detect all ")>> \o what
            \o <<T(" in the image and describe using "), T(annotation_type),
                 T(".")>>

\* _generate_ai_prompt_conversations: the turns of one history entry
AiPromptTurns(entry) ==
    IF entry.prompt = <<>> \/ entry.description = <<>> THEN <<>>
    ELSE IF entry.type \in {"ai_labeling", "object_detection"}
    THEN <<TurnA("human", entry.prompt, "Grounding"),
           TurnA("gpt", entry.description, "Grounding")>>
    ELSE IF entry.type = "bbox_description"
    THEN <<TurnA("human", entry.prompt, "Region Captioning"),
           TurnA("gpt", entry.description, "Region Captioning")>>
    ELSE IF entry.type = "text"
    THEN <<TurnA("human", entry.prompt, "Image Captioning"),
           TurnA("gpt", entry.description, "Image Captioning")>>
    ELSE IF \/ "bbox" \in DOMAIN entry
            \/ "detected_objects" \in DOMAIN entry /\ entry.detected_objects # <<>>
    THEN <<TurnA("human", entry.prompt, "Grounding"),
           TurnA("gpt", entry.description, "Grounding")>>
    ELSE <<>>

generate_ai_prompt_conversations(prompt_history) ==
    Flatten([i \in DOMAIN prompt_history |-> AiPromptTurns(prompt_history[i])])

generate_text_conversation(description) ==
    <<TurnA("human", <<T("Describe what you see in the image.")>>,
            "Image Captioning"),
      TurnA("gpt", description, "Image Captioning")>>

\* the description pair put before the history pairs
\* (the outcome of export, as below)
\* and the files as they are afterwards
conversation_export_text_first(lf, fs, include, fail_at) ==
    IF ~HasImageData(lf) THEN [ret |-> BoolRet(FALSE), files |-> fs]
    ELSE
    LET resp == format_annotations_in_response(lf.shapes, ExportImg.w, ExportImg.h)
        grounding_conv ==
            IF lf.shapes # <<>>
            THEN <<TurnA("human", GroundingPrompt(lf.shapes), "Grounding"),
                   TurnA("gpt", resp.text, "Grounding")>>
            ELSE <<>>
        ai_convs == generate_ai_prompt_conversations(lf.otherData.prompt_history)
        text_conv ==
            IF include /\ Strip(lf.otherData.vlm_description) # <<>>
            THEN generate_text_conversation(lf.otherData.vlm_description)
            ELSE <<>>
    IN  IF (lf.shapes # <<>> /\ ~resp.ok) \/ fail_at = 1
        THEN [ret |-> BoolRet(FALSE), files |-> fs]
        ELSE [ret |-> BoolRet(TRUE),
              files |-> [fs EXCEPT ![<<"conversation", 0>>] =
                  <<[image |-> ImagePath,
                     conversations |-> grounding_conv \o text_conv \o ai_convs]>>]]

\* the outcome of export(label_file, output_filename): the return value
\* and the files as they are afterwards
conversation_export(lf, fs, include, fail_at) ==
    IF ~HasImageData(lf) THEN [ret |-> BoolRet(FALSE), files |-> fs]
    ELSE
    LET resp == format_annotations_in_response(lf.shapes, ExportImg.w, ExportImg.h)
        grounding_conv ==
            IF lf.shapes # <<>>
            THEN <<TurnA("human", GroundingPrompt(lf.shapes), "Grounding"),
                   TurnA("gpt", resp.text, "Grounding")>>
            ELSE <<>>
        ai_convs == generate_ai_prompt_conversations(lf.otherData.prompt_history)
        text_conv ==
            IF include /\ Strip(lf.otherData.vlm_description) # <<>>
            THEN generate_text_conversation(lf.otherData.vlm_description)
            ELSE <<>>
    IN  IF (lf.shapes # <<>> /\ ~resp.ok) \/ fail_at = 1
        THEN [ret |-> BoolRet(FALSE), files |-> fs]
        ELSE [ret |-> BoolRet(TRUE),
              files |-> [fs EXCEPT ![<<"conversation", 0>>] =
                  <<[image |-> ImagePath,
                     conversations |-> grounding_conv \o ai_convs \o text_conv]>>]]

-----------------------------------------------------------------------------
(* ShareGPTExporter.export_single_file *)

Doc(image, task, convs) ==
    [image |-> image, task |-> task, conversations |-> convs]

DetectionTemplate ==
    <<T("Outline all object with bounding box using this format: <p>label</p>[x1,y1,x2,y2], <p>label</p>[x1,y1,x2,y2]")>>

OcrTemplate ==
    <<T("Read and Outline all words with bounding box using this format: <p>label</p>[x1,y1,x2,y2], <p>label</p>[x1,y1,x2,y2]")>>

export_single_file(lf, fs, fail_at) ==
    IF ~HasImageData(lf) THEN [ret |-> BoolRet(FALSE), files |-> fs]
    ELSE
    LET caption_history == lf.otherData.caption_history
        detection_shapes == ShapesOfTask(lf.shapes, "Detection")
        ocr_shapes == ShapesOfTask(lf.shapes, "OCR")
        valid == SelectSeq(caption_history, ValidCaption)
        json_objects ==
            [i \in DOMAIN valid |-> Doc(ImagePath, "Caption", CaptionTurns(valid[i]))]
            \o (IF detection_shapes # <<>>
                THEN <<Doc(ImagePath, "Detection",
                        <<Turn("human", DetectionTemplate),
                          Turn("gpt", format_shapes_as_json(detection_shapes,
                                          ExportImg.w, ExportImg.h))>>)>>
                ELSE <<>>)
            \o (IF ocr_shapes # <<>>
                THEN <<Doc(ImagePath, "OCR",
                        <<Turn("human", OcrTemplate),
                          Turn("gpt", format_shapes_as_json(ocr_shapes,
                                          ExportImg.w, ExportImg.h))>>)>>
                ELSE <<>>)
    IN  IF json_objects = <<>> \/ fail_at = 1
        THEN [ret |-> BoolRet(FALSE), files |-> fs]
        ELSE [ret |-> BoolRet(TRUE),
              files |-> [fs EXCEPT ![<<"single", 0>>] = json_objects]]

-----------------------------------------------------------------------------
(* ShareGPTExporter.export_to_directory *)

\* the files written, in order: one per valid caption entry (numbered by
\* the entry's place in the history), then detection, then ocr; a write
\* that raises ends the export with 0, the files before it staying
export_to_directory(lf, fs, det_order, ocr_order, fail_at) ==
    IF ~HasImageData(lf) THEN [ret |-> IntRet(0), files |-> fs]
    ELSE
    LET caption_history == lf.otherData.caption_history
        detection_shapes == ShapesOfTask(lf.shapes, "Detection")
        ocr_shapes == ShapesOfTask(lf.shapes, "OCR")
        captions == SelectSeq([i \in DOMAIN caption_history |-> i],
                        LAMBDA i : ValidCaption(caption_history[i]))
        writes ==
            [k \in DOMAIN captions |-> <<"caption", captions[k]>>]
                \o (IF detection_shapes # <<>> THEN << <<"detection", 0>> >> ELSE <<>>)
                \o (IF ocr_shapes # <<>> THEN << <<"ocr", 0>> >> ELSE <<>>)
        done == IF fail_at \in DOMAIN writes
                THEN SubSeq(writes, 1, fail_at - 1)
                ELSE writes
        written == Range(done)
        content(f) ==
            IF f[1] = "caption"
            THEN <<Doc(ImagePath, "Caption", CaptionTurns(caption_history[f[2]]))>>
            ELSE IF f[1] = "detection"
            THEN <<Doc(ImagePath, "Detection",
                    <<Turn("human", OutlinePrompt(det_order)),
                      Turn("gpt", format_shapes_as_json(detection_shapes,
                                      ExportImg.w, ExportImg.h))>>)>>
            ELSE <<Doc(ImagePath, "OCR",
                    <<Turn("human", OutlinePrompt(ocr_order)),
                      Turn("gpt", format_shapes_as_json(ocr_shapes,
                                      ExportImg.w, ExportImg.h))>>)>>
    IN  [ret |-> IF fail_at \in DOMAIN writes THEN IntRet(0)
                 ELSE IntRet(Len(writes)),
         files |-> [f \in FileNames |-> IF f \in written THEN content(f) ELSE fs[f]]]

-----------------------------------------------------------------------------
(* ShareGPTExporter.export *)

\* hasattr(shape, 'other_data') is False for a dict, so task_type stays
\* None and every shape goes to detection_shapes
sharegpt_export_sized(lf, fs, det_order, size, fail_at) ==
    IF ~HasImageData(lf) THEN [ret |-> BoolRet(FALSE), files |-> fs]
    ELSE
    LET caption_history == lf.otherData.caption_history
        valid == SelectSeq(caption_history, ValidCaption)
        caption_convs == Flatten([i \in DOMAIN valid |-> CaptionTurns(valid[i])])
        detection_shapes == lf.shapes
        detection_convs ==
            IF detection_shapes # <<>>
            THEN <<Turn("human", OutlinePrompt(det_order)),
                   Turn("gpt", format_shapes_as_json(detection_shapes,
                                   size.w, size.h))>>
            ELSE <<>>
        detection_count ==
            Cardinality({i \in DOMAIN lf.shapes :
                            lf.shapes[i].other_data.vlm_task = "Detection"})
        ocr_count ==
            Cardinality({i \in DOMAIN lf.shapes :
                            lf.shapes[i].other_data.vlm_task = "OCR"})
        task_type ==
            IF detection_count > 0 THEN "Detection"
            ELSE IF ocr_count > 0 THEN "OCR"
            ELSE "Caption"
    IN  IF fail_at = 1 THEN [ret |-> BoolRet(FALSE), files |-> fs]
        ELSE
        [ret |-> BoolRet(TRUE),
         files |-> [fs EXCEPT ![<<"sharegpt", 0>>] =
                     <<Doc(lf.imagePath, task_type, caption_convs \o detection_convs)>>]]

\* export with the size of the image the session's label file holds
sharegpt_export(lf, fs, det_order, fail_at) ==
    sharegpt_export_sized(lf, fs, det_order, ExportImg, fail_at)

-----------------------------------------------------------------------------
(* The label file handed to the exporters, and the exports *)

Tasks == {"Detection", "OCR", "none"}

\* the i-th shape of the label file: a one-pixel box or a point at (i, i)
ShapeAt(i, ty, task, label) ==
    [label |-> <<T(label)>>,
     points |-> IF ty = "rectangle"
                THEN << <<i * Den, i * Den>>, <<(i + 1) * Den, (i + 1) * Den>> >>
                ELSE << <<i * Den, i * Den>> >>,
     shape_type |-> ty,
     vlm_task |-> task,
     other_data |-> [vlm_task |-> task]]

\* the shapes drawn: boxes of every task and of none, and tagged points
\* with a label of their own
ShapeKinds ==
    ({"rectangle"} \X Tasks \X {"a"}) \cup { <<"point", "Detection", "b">> }

CaptionEntries ==
    { [prompt |-> <<T("describe")>>, description |-> <<T("a scene")>>],
      [prompt |-> <<T(" ")>>, description |-> <<T("a scene")>>] }

PromptEntries ==
    { [prompt |-> <<T("find a")>>,
       description |-> Tag(<<T("a")>>, NumberList(4)),
       type |-> "ai_labeling", category |-> "grounding"],
      [prompt |-> <<T("describe")>>, description |-> <<>>,
       type |-> "text", category |-> "caption"],
      [prompt |-> <<T("describe")>>, description |-> <<T("a scene")>>,
       type |-> "text", category |-> "caption"],
      [prompt |-> <<T("show a")>>, description |-> <<T("nothing here")>>,
       type |-> "grounding", category |-> "grounding"] }

Idle == op = "none"

HistoryRoom ==
    Len(label_file.otherData.caption_history)
        + Len(label_file.otherData.prompt_history) < MaxHistory

\* label_file.shapes: a shape with or without a task tag
AddShape ==
    /\ Idle
    /\ Len(label_file.shapes) < MaxShapes
    /\ \E kind \in ShapeKinds :
          label_file' = [label_file EXCEPT !.shapes =
              Append(@, ShapeAt(Len(label_file.shapes) + 1,
                                kind[1], kind[2], kind[3]))]
    /\ UNCHANGED <<files, op, ret, include_text_conversations>>
    /\ UNCHANGED exportRest

\* label_file.otherData['caption_history']
AddCaption ==
    /\ Idle
    /\ HistoryRoom
    /\ \E e \in CaptionEntries :
          label_file' = [label_file EXCEPT !.otherData.caption_history =
                            Append(@, e)]
    /\ UNCHANGED <<files, op, ret, include_text_conversations>>
    /\ UNCHANGED exportRest

\* label_file.otherData['prompt_history']
AddPrompt ==
    /\ Idle
    /\ HistoryRoom
    /\ \E e \in PromptEntries :
          label_file' = [label_file EXCEPT !.otherData.prompt_history =
                            Append(@, e)]
    /\ UNCHANGED <<files, op, ret, include_text_conversations>>
    /\ UNCHANGED exportRest

\* label_file.otherData['vlm_description']
SetDescription ==
    /\ Idle
    /\ label_file.otherData.vlm_description = <<>>
    /\ label_file' = [label_file EXCEPT !.otherData.vlm_description =
                          <<T("a scene")>>]
    /\ UNCHANGED <<files, op, ret, include_text_conversations>>
    /\ UNCHANGED exportRest

\* label_file.imageData
SetImageData ==
    /\ Idle
    /\ ~label_file.imageData
    /\ label_file' = [label_file EXCEPT !.imageData = TRUE]
    /\ UNCHANGED <<files, op, ret, include_text_conversations>>
    /\ UNCHANGED exportRest

ConversationExport ==
    /\ Idle
    /\ \E include \in BOOLEAN, fail_at \in 0..1 :
          /\ LET r == conversation_export(label_file, files, include, fail_at)
             IN  ret' = r.ret /\ files' = r.files
          /\ include_text_conversations' = include
    /\ op' = "ConversationFormatExporter.export"
    /\ UNCHANGED label_file
    /\ UNCHANGED exportRest

ExportSingleFile ==
    /\ Idle
    /\ \E fail_at \in 0..1 :
          LET r == export_single_file(label_file, files, fail_at)
          IN  ret' = r.ret /\ files' = r.files
    /\ op' = "ShareGPTExporter.export_single_file"
    /\ UNCHANGED <<label_file, include_text_conversations>>
    /\ UNCHANGED exportRest

ExportToDirectory ==
    /\ Idle
    /\ \E det_order \in LabelOrders(ShapesOfTask(label_file.shapes, "Detection")),
          ocr_order \in LabelOrders(ShapesOfTask(label_file.shapes, "OCR")),
          fail_at \in 0..MaxWrites :
          LET r == export_to_directory(label_file, files, det_order, ocr_order,
                                       fail_at)
          IN  ret' = r.ret /\ files' = r.files
    /\ op' = "ShareGPTExporter.export_to_directory"
    /\ UNCHANGED <<label_file, include_text_conversations>>
    /\ UNCHANGED exportRest

ShareGPTExport ==
    /\ Idle
    /\ \E det_order \in LabelOrders(label_file.shapes), fail_at \in 0..1 :
          LET r == sharegpt_export(label_file, files, det_order, fail_at)
          IN  ret' = r.ret /\ files' = r.files
    /\ op' = "ShareGPTExporter.export"
    /\ UNCHANGED <<label_file, include_text_conversations>>
    /\ UNCHANGED exportRest

ExportInit ==
    /\ label_file = [imageData |-> FALSE, imagePath |-> ImagePath,
                     shapes |-> <<>>,
                     otherData |-> [prompt_history |-> <<>>,
                                    caption_history |-> <<>>,
                                    vlm_description |-> <<>>]]
    /\ files = NoFiles
    /\ op = "none"
    /\ ret = [kind |-> "none", b |-> FALSE, n |-> 0]
    /\ include_text_conversations = TRUE

-----------------------------------------------------------------------------
(* convert_directory_to_sharegpt.py: the directory-batch converter *)

\* a stem is a sequence of name parts; "_sharegpt" is the export suffix
Marker == "_sharegpt"

Stems == { <<"a">>, <<"a", Marker>> }

Dirs == { "in", "in/sub" }

\* Image.new('RGB', (1, 1)): the image made up when none is found
DummyImg == [w |-> 1, h |-> 1]

\* a shape as it stands in a labelme JSON file
RawShape ==
    [label |-> <<T("a")>>,
     points |-> << <<Den, Den>>, <<2 * Den, 2 * Den>> >>,
     shape_type |-> "rectangle",
     vlm_task |-> "Detection",
     other_data |-> [vlm_task |-> "none"]]

\* the JSON objects found in the files: the keys they have, and the values
\* of "shapes" and "caption_history"
JsonData ==
    { [keys |-> {"shapes", "imagePath"}, shapes |-> <<RawShape>>,
       caption_history |-> <<>>],
      [keys |-> {"caption_history"}, shapes |-> <<>>,
       caption_history |-> <<[prompt |-> <<T("describe")>>,
                              description |-> <<T("a scene")>>]>>],
      [keys |-> {"image", "task", "conversations"}, shapes |-> <<>>,
       caption_history |-> <<>>],
      [keys |-> {"version"}, shapes |-> <<>>, caption_history |-> <<>>] }

\* find_image_for_json: an image file with the stem of the JSON file is
\* found ("ok", or "corrupt" when it does not decode) or not ("none")
Images == {"none", "ok", "corrupt"}

find_image_for_json(file) == file.image

\* create_labelfile_from_json: the label file, its image data being the
\* bytes of the image found, or of a dummy 1x1 image when none was found
create_labelfile_from_json(file, image_path) ==
    [imagePath |-> <<file.dir, file.stem>>,
     shapes |-> file.data.shapes,
     otherData |-> [prompt_history |-> <<>>,
                    caption_history |-> file.data.caption_history,
                    vlm_description |-> <<>>],
     imageData |-> TRUE,
     decodes |-> image_path # "corrupt",
     size |-> IF image_path = "none" THEN DummyImg ELSE ExportImg]

\* convert_file_to_sharegpt: the outcome for one file: the return value
\* and the document written to {stem}_sharegpt.json (<<>> when none is)
convert_file_to_sharegpt(file, det_order) ==
    LET image_path == find_image_for_json(file)
        label_file_ == create_labelfile_from_json(file, image_path)
        out == sharegpt_export_sized(label_file_, NoFiles, det_order,
                                     label_file_.size, 0)
    IN  IF ~label_file_.decodes
        THEN [ok |-> FALSE, written |-> <<>>]
        ELSE [ok |-> out.ret.b, written |-> out.files[<<"sharegpt", 0>>]]

OutputStem(stem) == stem \o <<Marker>>

\* the test without the look at the stem
HandedByContent(file) ==
    /\ ~({"conversations", "task"} \subseteq file.data.keys)
    /\ ("shapes" \in file.data.keys \/ "caption_history" \in file.data.keys)

\* the test of convert_directory that hands a file to conversion
Handed(file) ==
    /\ Marker \notin Range(file.stem)
    /\ ~({"conversations", "task"} \subseteq file.data.keys)
    /\ ("shapes" \in file.data.keys \/ "caption_history" \in file.data.keys)

OutputStems == {OutputStem(st) : st \in Stems}

\* the loop of convert_directory over json_files[i..]
RECURSIVE ConvertLoop(_, _, _)
ConvertLoop(json_files, i, acc) ==
    IF i > Len(json_files) THEN acc
    ELSE LET json_file == json_files[i]
         IN  IF ~Handed(json_file)
             THEN ConvertLoop(json_files, i + 1,
                      [acc EXCEPT !.results = Append(@, "skipped")])
             ELSE LET \* the files' shapes share one label: one order
                      r == convert_file_to_sharegpt(json_file,
                               CHOOSE o \in LabelOrders(json_file.data.shapes) :
                                   TRUE)
                      name == OutputStem(json_file.stem)
                  IN  ConvertLoop(json_files, i + 1,
                        [results |-> Append(acc.results,
                                        IF r.ok THEN "converted" ELSE "failed"),
                         success_count |->
                             acc.success_count + (IF r.ok THEN 1 ELSE 0),
                         output |->
                             IF r.written # <<>>
                             THEN [acc.output EXCEPT ![name] = r.written]
                             ELSE acc.output])

\* a JSON file under input_dir
AddInputFile ==
    /\ batchPc = "input"
    /\ Len(input_files) < MaxFiles
    /\ \E dir \in Dirs, stem \in Stems, data \in JsonData, image \in Images :
          /\ \A k \in DOMAIN input_files :
                <<input_files[k].dir, input_files[k].stem>> # <<dir, stem>>
          /\ input_files' = Append(input_files,
                [dir |-> dir, stem |-> stem, data |-> data, image |-> image])
    /\ UNCHANGED <<output_files, results, success_count, found_files, runs,
                   out_under_in, batchPc>>
    /\ UNCHANGED batchRest

\* a file of output_dir as rglob finds it: the document ShareGPTExporter
\* wrote, an object with the keys image, task and conversations
OutputFile(stem) ==
    [dir |-> "out", stem |-> stem,
     data |-> [keys |-> {"image", "task", "conversations"}, shapes |-> <<>>,
               caption_history |-> <<>>],
     image |-> "none"]

\* the files of output_dir, shortest name first
RECURSIVE OutputFiles(_, _)
OutputFiles(out, n) ==
    IF \A st \in DOMAIN out : Len(st) < n THEN <<>>
    ELSE LET here == {st \in DOMAIN out : Len(st) = n /\ out[st] # <<>>}
         IN  (IF here = {} THEN <<>> ELSE <<OutputFile(CHOOSE st \in here : TRUE)>>)
             \o OutputFiles(out, n + 1)

\* input_path.rglob('*.json'): the files under input_dir, those of
\* output_dir among them when it lies under input_dir
rglob(nested) ==
    input_files \o (IF nested THEN OutputFiles(output_files, 1) ELSE <<>>)

\* convert_directory(input_dir, output_dir), input_dir holding JSON files;
\* the first run settles where output_dir lies
ConvertDirectory ==
    /\ input_files # <<>>
    /\ runs < MaxRuns
    /\ \E nested \in BOOLEAN :
          /\ runs > 0 => nested = out_under_in
          /\ out_under_in' = nested
          /\ found_files' = rglob(nested)
          /\ LET run == ConvertLoop(rglob(nested), 1,
                            [results |-> <<>>, success_count |-> 0,
                             output |-> output_files])
             IN  /\ results' = run.results
                 /\ success_count' = run.success_count
                 /\ output_files' = run.output
    /\ runs' = runs + 1
    /\ batchPc' = "done"
    /\ UNCHANGED input_files
    /\ UNCHANGED batchRest

BatchInit ==
    /\ input_files = <<>>
    /\ output_files = [st \in OutputStems |-> <<>>]
    /\ results = <<>>
    /\ success_count = 0
    /\ found_files = <<>>
    /\ runs = 0
    /\ out_under_in = FALSE
    /\ batchPc = "input"

-----------------------------------------------------------------------------
(* vlm/utils.py and vlm/bbox_detection.py: the model's detection response  *)
(*                                                                         *)
(* More tokens: "fence" is a code-fence marker (three backquotes), "json"  *)
(* the language tag that may follow it, and an "item" token is one element *)
(* of a JSON array, its n the index of the element in JsonItems.  A JSON   *)
(* number is in units of 1/Den like every coordinate; a confidence is kept *)
(* as a number token.                                                      *)

J(n) == [k |-> "item", n |-> n]

\* the elements a JSON array of the response is made of; isdict = FALSE is
\* an element that is no object (a bare number)
JsonItems ==
    << [isdict |-> TRUE,
        obj |-> [bbox_2d |-> <<6 * Den, 1 * Den, 2 * Den, 5 * Den>>,
                 label |-> <<T("a")>>]],
       [isdict |-> TRUE,
        obj |-> [bbox_2d |-> <<1 * Den, 7 * Den, 3 * Den, 2 * Den>>,
                 label |-> <<T("b")>>,
                 description |-> <<T("x")>>,
                 confidence |-> Num(9 * 100 * Milli)]],
       [isdict |-> TRUE,
        obj |-> [position |-> [x |-> 3 * Den, y |-> 5 * Den],
                 type |-> <<T("a")>>]],
       [isdict |-> TRUE,
        obj |-> [bbox |-> <<5 * Den, 6 * Den, -Den, 0>>,
                 label |-> <<T("a")>>]],
       [isdict |-> FALSE, obj |-> [value |-> 7 * Den]] >>

\* dict.get(key, default)
Get(d, key, default) == IF key \in DOMAIN d THEN d[key] ELSE default

\* whether piece occurs in s as a run of consecutive tokens
Find(s, piece) ==
    \E i \in 1..(Len(s) - Len(piece) + 1) :
        SubSeq(s, i, i + Len(piece) - 1) = piece

\* the tokens made of the characters 0-9 . ,
Digits == {"num", ","}

\* the first position >= i of s holding a token not of kinds ks (0: none)
FirstNotOf(s, i, ks) ==
    IF \E j \in i..Len(s) : s[j].k \notin ks
    THEN CHOOSE j \in i..Len(s) :
            /\ s[j].k \notin ks
            /\ \A m \in i..(j - 1) : s[m].k \in ks
    ELSE 0

\* pattern = <p>([^<]+)</p>\[([0-9.,]+)\] tried at position i
BboxMatchAt(s, i) ==
    LET j == FirstOf(s, i + 1, Lt)
        c == IF j = 0 THEN 0 ELSE FirstNotOf(s, j + 2, Digits)
    IN  IF /\ s[i].k = "<p>"
           /\ j > i + 1
           /\ s[j].k = "</p>"
           /\ j + 1 <= Len(s)
           /\ s[j + 1].k = "["
           /\ c > j + 2
           /\ s[c].k = "]"
        THEN [ok |-> TRUE, label |-> SubSeq(s, i + 1, j - 1),
              coord_str |-> SubSeq(s, j + 2, c - 1), end |-> c]
        ELSE [ok |-> FALSE, label |-> <<>>, coord_str |-> <<>>, end |-> i]

\* re.findall(pattern, text): the non-overlapping matches, left to right
RECURSIVE BboxFindAllFrom(_, _)
BboxFindAllFrom(s, i) ==
    IF i > Len(s) THEN <<>>
    ELSE LET m == BboxMatchAt(s, i)
         IN  IF m.ok
             THEN <<[label |-> m.label, coord_str |-> m.coord_str]>>
                      \o BboxFindAllFrom(s, m.end + 1)
             ELSE BboxFindAllFrom(s, i + 1)

\* is_conversation_format_response: re.search of the same pattern
is_conversation_format_response(text) ==
    \E i \in DOMAIN text : BboxMatchAt(text, i).ok

\* is_json_response: only whitespace is stripped before the two tests
is_json_response(text) ==
    LET cleaned == Strip(text)
    IN  \/ /\ cleaned # <<>>
           /\ cleaned[1].k = "["
           /\ cleaned[Len(cleaned)].k = "]"
        \/ Find(cleaned, <<T("fence"), T("json")>>)

\* the loop over the matches: a ValueError skips the match, a match that
\* has not four coordinates is logged and left out
RECURSIVE BboxLoop(_, _, _)
BboxLoop(ms, i, acc) ==
    IF i > Len(ms) THEN acc
    ELSE LET ps == CoordPieces(ms[i])
         IN  IF \E p \in DOMAIN ps : ~FloatOk(ps[p])
             THEN BboxLoop(ms, i + 1, acc)
             ELSE LET coords == [p \in DOMAIN ps |-> FloatVal(ps[p])]
                  IN  IF Len(coords) = 4
                      THEN BboxLoop(ms, i + 1, Append(acc,
                               [bbox |-> coords,
                                label |-> Strip(ms[i].label),
                                description |-> <<>>]))
                      ELSE BboxLoop(ms, i + 1, acc)

parse_conversation_format_response(text) ==
    [detections |-> BboxLoop(BboxFindAllFrom(text, 1), 1, <<>>),
     description |-> text]

\* fence_match = re.search(r"```(?:json)?\s*(.+?)```", cleaned, DOTALL) and
\* group(1).strip(); the texts of this model hold at most one fenced block,
\* opened and closed by one marker each
FencedBlock(cleaned) ==
    LET open == FirstOf(cleaned, 1, {"fence"})
        a == IF open > 0 /\ open < Len(cleaned) /\ cleaned[open + 1].k = "json"
             THEN open + 2 ELSE open + 1
        close == IF open = 0 THEN 0 ELSE FirstOf(cleaned, a, {"fence"})
    IN  IF open > 0 /\ close > a
        THEN [found |-> TRUE,
              text |-> Strip(SubSeq(cleaned, a, close - 1))]
        ELSE [found |-> FALSE, text |-> <<>>]

\* json.loads of an array text: '[' element (',' element)* ']' with
\* whitespace anywhere between; ok = FALSE is a JSONDecodeError or a JSON
\* value that is no list
json_loads(s) ==
    LET t == SelectSeq(s, LAMBDA tok : tok.k # " ")
        n == Len(t)
    IN  IF /\ n >= 2
           /\ t[1].k = "["
           /\ t[n].k = "]"
           /\ \/ n = 2
              \/ /\ n % 2 = 1
                 /\ \A i \in 2..(n - 1) :
                       IF i % 2 = 0 THEN t[i].k = "item" ELSE t[i].k = ","
        THEN [ok |-> TRUE,
              data |-> [i \in 1..((n - 1) \div 2) |-> JsonItems[t[2 * i].n]]]
        ELSE [ok |-> FALSE, data |-> <<>>]

\* the tests of the three schemas, each on the whole array
IsSchemaA(data) ==
    \A i \in DOMAIN data :
        data[i].isdict /\ {"bbox", "label"} \subseteq DOMAIN data[i].obj
IsSchemaB(data) ==
    \A i \in DOMAIN data :
        data[i].isdict /\ {"bbox_2d", "label"} \subseteq DOMAIN data[i].obj
IsSchemaC(data) ==
    \A i \in DOMAIN data :
        data[i].isdict /\ {"position", "type"} \subseteq DOMAIN data[i].obj

\* Schema B: the converted record, with the description dropped
SchemaBPlain(item) ==
    [bbox |-> item.bbox_2d,
     label |-> item.label,
     description |-> <<>>,
     confidence |-> Get(item, "confidence", None)]

\* Schema B: the converted record
SchemaB(item) ==
    [bbox |-> item.bbox_2d,
     label |-> item.label,
     description |-> Get(item, "description", <<>>),
     confidence |-> Get(item, "confidence", None)]

\* Schema C: a point taken as a box of no extent
SchemaC(item) ==
    LET pos == item.position
        x == Get(pos, "x", 0)
        y == Get(pos, "y", 0)
    IN  [bbox |-> <<x, y, x, y>>,
         label |-> item.type,
         description |-> Get(item, "description", <<>>),
         confidence |-> Get(item, "confidence", None)]

\* the schema tests with the elements that fit Schema B kept and the
\* others left out
MatchSchemaLenient(data) ==
    LET fit == {i \in DOMAIN data :
                   data[i].isdict
                   /\ {"bbox_2d", "label"} \subseteq DOMAIN data[i].obj}
        idx == Indices(data, 1, fit)
    IN  [ok |-> TRUE,
         detections |-> [i \in DOMAIN idx |-> SchemaB(data[idx[i]].obj)]]

\* the schema tests in source order; Schema A returns the elements as they
\* are, ok = FALSE is "Unrecognized JSON schema"
MatchSchema(data) ==
    IF IsSchemaA(data)
    THEN [ok |-> TRUE, detections |-> [i \in DOMAIN data |-> data[i].obj]]
    ELSE IF IsSchemaB(data)
    THEN [ok |-> TRUE,
          detections |-> [i \in DOMAIN data |-> SchemaB(data[i].obj)]]
    ELSE IF IsSchemaC(data)
    THEN [ok |-> TRUE,
          detections |-> [i \in DOMAIN data |-> SchemaC(data[i].obj)]]
    ELSE [ok |-> FALSE, detections |-> <<>>]

\* ok = FALSE: a ValueError
parse_vlm_json_response(text) ==
    LET cleaned == Strip(text)
        fence_match == FencedBlock(cleaned)
        cleaned_text == IF fence_match.found THEN fence_match.text
                        ELSE cleaned
        loaded == json_loads(cleaned_text)
    IN  IF loaded.ok THEN MatchSchema(loaded.data)
        ELSE [ok |-> FALSE, detections |-> <<>>]

\* the detection_dicts made BboxDetection objects
ToDetections(detection_dicts) ==
    [i \in DOMAIN detection_dicts |->
        BboxDetection(detection_dicts[i].bbox,
                      detection_dicts[i].label,
                      Get(detection_dicts[i], "confidence", None),
                      Get(detection_dicts[i], "description", <<>>))]

\* detect_objects_with_vlm from the raw output on: schema is the branch
\* taken, error = TRUE a ValueError raised to the caller
detect_objects_with_vlm(raw, image, input_size) ==
    IF is_conversation_format_response(raw)
    THEN LET parsed == parse_conversation_format_response(raw)
             conv == convert_detections_to_labelme_shapes(
                         ToDetections(parsed.detections), image, None, TRUE)
         IN  [schema |-> "conversation", error |-> ~conv.ok,
              detection_dicts |-> parsed.detections,
              shapes |-> conv.shapes,
              description_text |-> IF conv.ok THEN parsed.description
                                   ELSE <<>>]
    ELSE IF is_json_response(raw)
    THEN LET parsed == parse_vlm_json_response(raw)
             conv == convert_detections_to_labelme_shapes(
                         ToDetections(parsed.detections), image, input_size,
                         FALSE)
         IN  [schema |-> "json", error |-> ~(parsed.ok /\ conv.ok),
              detection_dicts |-> parsed.detections,
              shapes |-> IF parsed.ok THEN conv.shapes ELSE <<>>,
              description_text |-> <<>>]
    ELSE [schema |-> "unrecognized", error |-> FALSE,
          detection_dicts |-> <<>>, shapes |-> <<>>,
          description_text |-> raw]

\* the brackets of the tags a response may hold: boxes in either corner
\* order, a padded box, a point
ResponseBrackets ==
    { NumberList(4),
      <<Num(800 * Milli), T(","), Num(100 * Milli), T(","),
        Num(200 * Milli), T(","), Num(500 * Milli)>>,
      <<Num(100 * Milli), T(","), Num(900 * Milli), T(","),
        Num(300 * Milli), T(","), Num(200 * Milli)>>,
      <<Num(100 * Milli), T(","), T(" "), Num(200 * Milli), T(","), T(" "),
        Num(300 * Milli), T(","), T(" "), Num(400 * Milli)>>,
      NumberList(2) }

Fences == {"none", "plain", "json"}

\* the text of a JSON array of the given elements, bare or in a code fence
JsonArrayText(items, fence) ==
    LET body == <<T("[")>>
                \o Flatten([i \in 1..(2 * Len(items) - 1) |->
                       IF i % 2 = 1 THEN <<J(items[(i + 1) \div 2])>>
                       ELSE <<T(","), T(" ")>>])
                \o <<T("]")>>
    IN  IF fence = "none" THEN body
        ELSE IF fence = "plain"
        THEN <<T("fence"), T(" ")>> \o body \o <<T(" "), T("fence")>>
        ELSE <<T("fence"), T("json"), T(" ")>> \o body \o <<T(" "), T("fence")>>

ItemLists == UNION { [1..n -> DOMAIN JsonItems] : n \in 0..MaxItems }

ImageShapes == { [w |-> 2, h |-> 4], [w |-> 16, h |-> 4] }
ModelInputSize == [w |-> 4, h |-> 8]

AppendResponseTag ==
    /\ detectPc = "input"
    /\ nparts < MaxChunks
    /\ \E b \in ResponseBrackets :
          raw_output' = raw_output \o Tag(<<T("a")>>, b)
    /\ nparts' = nparts + 1
    /\ UNCHANGED <<img_shape, in_size, detected>>
    /\ UNCHANGED <<detectPc>>
    /\ UNCHANGED detectRest

\* at most one JSON array, fenced or bare, in a response
AppendJsonArray ==
    /\ detectPc = "input"
    /\ nparts < MaxChunks
    /\ \A i \in DOMAIN raw_output : raw_output[i].k \notin {"item", "fence"}
    /\ \E items \in ItemLists, fence \in Fences :
          raw_output' = raw_output \o JsonArrayText(items, fence)
    /\ nparts' = nparts + 1
    /\ UNCHANGED <<img_shape, in_size, detected>>
    /\ UNCHANGED <<detectPc>>
    /\ UNCHANGED detectRest

AppendResponseProse ==
    /\ detectPc = "input"
    /\ nparts < MaxChunks
    /\ \E c \in { <<T(" ")>>, <<T("x")>> } : raw_output' = raw_output \o c
    /\ nparts' = nparts + 1
    /\ UNCHANGED <<img_shape, in_size, detected>>
    /\ UNCHANGED <<detectPc>>
    /\ UNCHANGED detectRest

\* detect_objects_with_vlm(image, objects), from the model's answer on
DetectObjects ==
    /\ detectPc = "input"
    /\ \E image \in ImageShapes :
          /\ img_shape' = image
          /\ in_size' = ModelInputSize
          /\ detected' = detect_objects_with_vlm(raw_output, image,
                                                 ModelInputSize)
    /\ detectPc' = "done"
    /\ UNCHANGED <<raw_output, nparts>>
    /\ UNCHANGED detectRest

DetectInit ==
    /\ raw_output = <<>>
    /\ nparts = 0
    /\ img_shape = [w |-> 1, h |-> 1]
    /\ in_size = None
    /\ detected = [schema |-> "none", error |-> FALSE,
                   detection_dicts |-> <<>>, shapes |-> <<>>,
                   description_text |-> <<>>]
    /\ detectPc = "input"

-----------------------------------------------------------------------------
(* ConversationFormatLoader._reconstruct_prompt_history                    *)
(*                                                                         *)
(* A turn is a record with the keys "from" and "value" and, on a tagged    *)
(* turn, "attribute".  A prompt is a sequence of word and blank tokens.    *)

\* human_conv.get('attribute', None): "None" stands for Python's None here
NoAttribute == "None"

\* str.lower() on the words of the prompts
Lower(text) ==
    [i \in DOMAIN text |->
        IF text[i].k = "Detect" THEN T("detect") ELSE text[i]]

\* any(phrase in prompt.lower() for phrase in phrases)
AnyPhrase(prompt, phrases) ==
    \E phrase \in phrases : Find(Lower(prompt), phrase)

LocatePhrases ==
    { <<T("detect"), T(" "), T("and"), T(" "), T("locate")>>,
      <<T("find"), T(" "), T("and"), T(" "), T("locate")>> }

DetectPhrases == { <<T("detect")>>, <<T("find")>>, <<T("locate")>> }

\* the entry of a pair, with the content analysis run whatever the tag
HistoryEntryByContent(human_conv, gpt_conv) ==
    LET prompt == Get(human_conv, "value", <<>>)
        description == Get(gpt_conv, "value", <<>>)
        anns == parse_gpt_annotations(description)
    IN  IF anns # <<>>
        THEN [prompt |-> prompt, description |-> description,
              type |-> IF AnyPhrase(prompt, LocatePhrases) THEN "ai_labeling"
                       ELSE IF AnyPhrase(prompt, DetectPhrases)
                       THEN "object_detection"
                       ELSE "grounding",
              category |-> "grounding",
              detected_objects |-> [a \in DOMAIN anns |-> anns[a].label],
              detection_count |-> Len(anns)]
        ELSE [prompt |-> prompt, description |-> description,
              type |-> "text", category |-> "caption"]

\* the entry of a human/gpt pair
HistoryEntry(human_conv, gpt_conv) ==
    LET prompt == Get(human_conv, "value", <<>>)
        description == Get(gpt_conv, "value", <<>>)
        attribute == Get(human_conv, "attribute", NoAttribute)
        anns == parse_gpt_annotations(description)
    IN  IF attribute = "Grounding"
        THEN IF anns # <<>>
             THEN [prompt |-> prompt, description |-> description,
                   type |-> IF AnyPhrase(prompt, LocatePhrases)
                            THEN "ai_labeling" ELSE "object_detection",
                   category |-> "grounding",
                   detected_objects |-> [a \in DOMAIN anns |-> anns[a].label],
                   detection_count |-> Len(anns)]
             ELSE [prompt |-> prompt, description |-> description,
                   type |-> "grounding", category |-> "grounding"]
        ELSE IF attribute = "Region Captioning"
        THEN [prompt |-> prompt, description |-> description,
              type |-> "bbox_description", category |-> "grounding"]
        ELSE IF attribute = "Image Captioning"
        THEN [prompt |-> prompt, description |-> description,
              type |-> "text", category |-> "caption"]
        ELSE IF anns # <<>>
        THEN [prompt |-> prompt, description |-> description,
              type |-> IF AnyPhrase(prompt, LocatePhrases) THEN "ai_labeling"
                       ELSE IF AnyPhrase(prompt, DetectPhrases)
                       THEN "object_detection"
                       ELSE "grounding",
              category |-> "grounding",
              detected_objects |-> [a \in DOMAIN anns |-> anns[a].label],
              detection_count |-> Len(anns)]
        ELSE [prompt |-> prompt, description |-> description,
              type |-> "text", category |-> "caption"]

\* the while loop: a human turn directly followed by a gpt turn makes an
\* entry and both are passed over; any other turn is passed over alone
RECURSIVE ReconstructLoop(_, _, _)
ReconstructLoop(convs, i, acc) ==
    IF i > Len(convs) THEN acc
    ELSE IF /\ i + 1 <= Len(convs)
            /\ Get(convs[i], "from", NoAttribute) = "human"
            /\ Get(convs[i + 1], "from", NoAttribute) = "gpt"
         THEN ReconstructLoop(convs, i + 2,
                  Append(acc, HistoryEntry(convs[i], convs[i + 1])))
         ELSE ReconstructLoop(convs, i + 1, acc)

reconstruct_prompt_history(convs) == ReconstructLoop(convs, 1, <<>>)

Attributes ==
    {NoAttribute, "Grounding", "Region Captioning", "Image Captioning",
     "Other"}

Prompts ==
    { <<T("Detect"), T(" "), T("and"), T(" "), T("locate"), T(" "), T("a")>>,
      <<T("find"), T(" "), T("a")>>,
      <<T("describe")>> }

ModelTexts ==
    { Tag(<<T("a")>>, NumberList(4)) \o <<T(" ")>>
          \o Tag(<<T("b")>>, NumberList(2)),
      <<T("x")>> }

HumanTurn(prompt, attribute) ==
    IF attribute = NoAttribute
    THEN [from |-> "human", value |-> prompt]
    ELSE [from |-> "human", value |-> prompt, attribute |-> attribute]

GptTurn(text) == [from |-> "gpt", value |-> text]

\* one more human turn and the model's answer to it
AppendPair ==
    /\ historyPc = "input"
    /\ npieces < MaxUnits
    /\ \E prompt \in Prompts, attribute \in Attributes, text \in ModelTexts :
          turns' = turns \o <<HumanTurn(prompt, attribute), GptTurn(text)>>
    /\ npieces' = npieces + 1
    /\ UNCHANGED <<history, historyPc>>
    /\ UNCHANGED historyRest

\* one more turn that has no partner: a question never answered, or an
\* answer to no question
AppendSingle ==
    /\ historyPc = "input"
    /\ npieces < MaxUnits
    /\ \E turn \in { HumanTurn(<<T("describe")>>, "Grounding"),
                      GptTurn(Tag(<<T("a")>>, NumberList(4))) } :
          turns' = Append(turns, turn)
    /\ npieces' = npieces + 1
    /\ UNCHANGED <<history, historyPc>>
    /\ UNCHANGED historyRest

\* loader._reconstruct_prompt_history(conversations)
ReconstructHistory ==
    /\ historyPc = "input"
    /\ history' = reconstruct_prompt_history(turns)
    /\ historyPc' = "done"
    /\ UNCHANGED <<turns, npieces>>
    /\ UNCHANGED historyRest

HistoryInit ==
    /\ turns = <<>>
    /\ npieces = 0
    /\ history = <<>>
    /\ historyPc = "input"

-----------------------------------------------------------------------------
(* conversation_format.py: is_conversation_format                          *)
(*                                                                         *)
(* A file is [readable, json_ok, data]: readable = FALSE is a file open()  *)
(* raises on, json_ok = FALSE a text json.load raises on.  A JSON value is *)
(* [isdict, islist, obj, items]: obj holds the keys of an object, items    *)
(* the elements of an array.                                               *)

JsonDict(obj) == [isdict |-> TRUE, islist |-> FALSE, obj |-> obj, items |-> <<>>]
JsonList(items) ==
    [isdict |-> FALSE, islist |-> TRUE, obj |-> [none |-> TRUE], items |-> items]
JsonScalar == [isdict |-> FALSE, islist |-> FALSE, obj |-> [none |-> TRUE], items |-> <<>>]

\* the checks of is_conversation_format, without the test on the speaker
is_conversation_format_any_speaker(file) ==
    IF ~file.readable \/ ~file.json_ok THEN FALSE
    ELSE LET data == file.data
         IN  IF data.isdict
             THEN IF "conversations" \notin DOMAIN data.obj THEN FALSE
                  ELSE LET convs == data.obj.conversations
                       IN  IF ~convs.islist THEN FALSE
                           ELSE \A c \in DOMAIN convs.items :
                                   LET conv == convs.items[c]
                                   IN  /\ conv.isdict
                                       /\ "from" \in DOMAIN conv.obj
                                       /\ "value" \in DOMAIN conv.obj
             ELSE FALSE

\* an exception of open() or json.load is caught and gives False
is_conversation_format(file) ==
    IF ~file.readable \/ ~file.json_ok THEN FALSE
    ELSE LET data == file.data
         IN  IF data.isdict
             THEN IF "conversations" \notin DOMAIN data.obj THEN FALSE
                  ELSE LET convs == data.obj.conversations
                       IN  IF ~convs.islist THEN FALSE
                           ELSE \A c \in DOMAIN convs.items :
                                   LET conv == convs.items[c]
                                   IN  /\ conv.isdict
                                       /\ "from" \in DOMAIN conv.obj
                                       /\ "value" \in DOMAIN conv.obj
                                       /\ conv.obj["from"] \in {"human", "gpt"}
             ELSE FALSE

\* the files that hold no conversations array
OtherFiles ==
    { [readable |-> FALSE, json_ok |-> FALSE, data |-> JsonScalar],
      [readable |-> TRUE, json_ok |-> FALSE, data |-> JsonScalar],
      [readable |-> TRUE, json_ok |-> TRUE, data |-> JsonScalar],
      [readable |-> TRUE, json_ok |-> TRUE, data |-> JsonList(<<>>)],
      [readable |-> TRUE, json_ok |-> TRUE,
       data |-> JsonDict([shapes |-> JsonList(<<>>)])],
      [readable |-> TRUE, json_ok |-> TRUE,
       data |-> JsonDict([conversations |-> JsonScalar])],
      [readable |-> TRUE, json_ok |-> TRUE,
       data |-> JsonDict([conversations |-> JsonDict([from |-> "human",
                                                      value |-> <<>>])])] }

\* the elements a conversations array may hold
ConvElements ==
    { JsonDict([from |-> "human", value |-> <<T("x")>>]),
      JsonDict([from |-> "gpt", value |-> <<T("x")>>]),
      JsonDict([from |-> "system", value |-> <<T("x")>>]),
      JsonDict([from |-> "human"]),
      JsonDict([value |-> <<T("x")>>]),
      JsonScalar }

ConversationFile(items) ==
    [readable |-> TRUE, json_ok |-> TRUE,
     data |-> JsonDict([conversations |-> JsonList(items)])]

\* some file that is no object with a conversations array
WriteOtherFile ==
    /\ formatPc = "input"
    /\ conv_file \in OtherFiles
    /\ \E file \in OtherFiles : file # conv_file /\ conv_file' = file
    /\ UNCHANGED <<is_conv, formatPc>>
    /\ UNCHANGED formatRest

\* a file with a conversations array of one more element
WriteConversation ==
    /\ formatPc = "input"
    /\ \E conv \in ConvElements :
          LET old == IF conv_file \in OtherFiles THEN <<>>
                     ELSE conv_file.data.obj.conversations.items
          IN  /\ Len(old) < MaxTurns
              /\ conv_file' = ConversationFile(Append(old, conv))
    /\ UNCHANGED <<is_conv, formatPc>>
    /\ UNCHANGED formatRest

\* a file with an empty conversations array
WriteEmptyConversation ==
    /\ formatPc = "input"
    /\ conv_file \in OtherFiles
    /\ conv_file' = ConversationFile(<<>>)
    /\ UNCHANGED <<is_conv, formatPc>>
    /\ UNCHANGED formatRest

\* is_conversation_format(filename)
CheckFormat ==
    /\ formatPc = "input"
    /\ is_conv' = is_conversation_format(conv_file)
    /\ formatPc' = "done"
    /\ UNCHANGED <<conv_file>>
    /\ UNCHANGED formatRest

FormatInit ==
    /\ conv_file = [readable |-> FALSE, json_ok |-> FALSE, data |-> JsonScalar]
    /\ is_conv = FALSE
    /\ formatPc = "input"

-----------------------------------------------------------------------------
(* ConversationFormatLoader._create_label_file_from_data, and the document *)
(* ConversationFormatExporter.export writes from the label file it made    *)

\* for conv in conversations: the shapes of every annotation of every gpt
\* turn, in order
LoadedShapes(convs, img_width, img_height) ==
    Flatten([i \in DOMAIN convs |->
        IF Get(convs[i], "from", NoAttribute) = "gpt"
        THEN LET anns == parse_gpt_annotations(Get(convs[i], "value", <<>>))
             IN  [a \in DOMAIN anns |->
                    convert_annotation_to_shape(anns[a], img_width, img_height)]
        ELSE <<>>])

\* None when the document names no image or the image is not found;
\* else the label file, with the history rebuilt from the turns and the
\* last entry's description as vlm_description
create_label_file_from_data(data, image_found) ==
    IF "image" \notin DOMAIN data THEN None
    ELSE IF ~image_found THEN None
    ELSE
    LET convs == Get(data, "conversations", <<>>)
        separated == separate_conversation_types(convs)
        prompt_history == reconstruct_prompt_history(convs)
    IN  [shapes |-> LoadedShapes(convs, ExportImg.w, ExportImg.h),
         imagePath |-> data.image,
         imageData |-> TRUE,
         otherData |->
            [conversations |-> convs,
             grounding_conversations |-> separated.grounding,
             text_conversations |-> separated.text,
             conversation_stats |-> analyze_conversations(convs),
             prompt_history |-> prompt_history,
             vlm_description |->
                IF prompt_history # <<>>
                THEN Get(prompt_history[Len(prompt_history)], "description", <<>>)
                ELSE <<>>]]

\* how often a document is loaded
MaxLoads == 2

\* a question and the model's answer, as a document holds them
DocPairs ==
    { <<HumanTurn(<<T("find"), T(" "), T("a")>>, "Grounding"),
        GptTurn(Tag(<<T("a")>>, NumberList(4)))>>,
      <<HumanTurn(<<T("describe")>>, NoAttribute), GptTurn(<<T("x")>>)>>,
      <<HumanTurn(<<T("describe")>>, "Image Captioning"), GptTurn(<<>>)>>,
      <<HumanTurn(<<T("point"), T(" "), T("at"), T(" "), T("b")>>, "Other"),
        GptTurn(Tag(<<T("b")>>, NumberList(2)))>> }

\* the labels and geometry kinds of shapes, in order
ShapeSummary(shps) ==
    [i \in DOMAIN shps |-> <<shps[i].label, shps[i].shape_type>>]

\* the document gets one more pair of turns
AppendDocumentPair ==
    /\ tripPc = "input"
    /\ Len(document.conversations) < 2 * MaxUnits
    /\ \E pair \in DocPairs :
          document' = [document EXCEPT !.conversations = @ \o pair]
    /\ UNCHANGED <<image_on_disk, loaded_file, load_log, export_log, tripPc>>
    /\ UNCHANGED tripRest

\* the document is one without an "image" key
OmitImageKey ==
    /\ tripPc = "input"
    /\ "image" \in DOMAIN document
    /\ document' = [conversations |-> document.conversations]
    /\ UNCHANGED <<image_on_disk, loaded_file, load_log, export_log, tripPc>>
    /\ UNCHANGED tripRest

\* the image is not where the document says, nor next to the document
RemoveImage ==
    /\ tripPc = "input"
    /\ image_on_disk
    /\ image_on_disk' = FALSE
    /\ UNCHANGED <<document, loaded_file, load_log, export_log, tripPc>>
    /\ UNCHANGED tripRest

\* loader.load(filename): the document as it is on disk
LoadDocument ==
    /\ tripPc \in {"input", "exported"}
    /\ Len(load_log) < MaxLoads
    /\ LET label_file_ == create_label_file_from_data(document, image_on_disk)
       IN  /\ loaded_file' = label_file_
           /\ IF label_file_ = None
              THEN tripPc' = "failed" /\ UNCHANGED load_log
              ELSE /\ tripPc' = "loaded"
                   /\ load_log' = Append(load_log, ShapeSummary(label_file_.shapes))
    /\ UNCHANGED <<document, image_on_disk, export_log>>
    /\ UNCHANGED tripRest

\* exporter.export(label_file, filename) over the document, no edit made
ExportLoaded ==
    /\ tripPc = "loaded"
    /\ \E include \in BOOLEAN, fail_at \in 0..1 :
          LET r == conversation_export(loaded_file, NoFiles, include, fail_at)
          IN  IF r.ret = BoolRet(TRUE)
              THEN /\ document' = r.files[<<"conversation", 0>>][1]
                   /\ export_log' = Append(export_log,
                          Len(r.files[<<"conversation", 0>>][1].conversations))
                   /\ tripPc' = "exported"
              ELSE /\ tripPc' = "failed"
                   /\ UNCHANGED <<document, export_log>>
    /\ UNCHANGED <<image_on_disk, loaded_file, load_log>>
    /\ UNCHANGED tripRest

TripInit ==
    /\ document = [image |-> ImagePath, conversations |-> <<>>]
    /\ image_on_disk = TRUE
    /\ loaded_file = None
    /\ load_log = <<>>
    /\ export_log = <<>>
    /\ tripPc = "input"

-----------------------------------------------------------------------------
(* widgets/vlm_categories_widget.py: VlmCategoriesWidget                   *)
(*                                                                         *)
(* Rows are counted from 1; current_row = 0 stands for Qt's -1.  The       *)
(* handlers of the description pane (_on_prompt_row_changed,               *)
(* _on_caption_text_changed) read and write the description of one entry   *)
(* and leave the list and the prompts alone.                               *)

\* how many rows the caption list gets
MaxRows == 3

\* [item for item in self._prompt_history if item.get("category") == "caption"]
CaptionItems(hist) ==
    SelectSeq(hist, LAMBDA item : Get(item, "category", "") = "caption")

\* list.remove(x): the first element equal to x goes (dicts compare by
\* their keys and values)
ListRemove(list, x) ==
    LET first == CHOOSE i \in DOMAIN list :
                    /\ list[i] = x
                    /\ \A j \in 1..(i - 1) : list[j] # x
    IN  SubSeq(list, 1, first - 1) \o SubSeq(list, first + 1, Len(list))

\* QListWidget.takeItem(row): the row goes
takeItem(list, row) ==
    SubSeq(list, 1, row - 1) \o SubSeq(list, row + 1, Len(list))

\* what the dialog's text field holds when the dialog closes
DialogTexts == { <<T("p")>>, <<T("q")>>, <<T(" ")>> }

\* the entries of a history handed to set_prompt_history
GivenEntries ==
    { [prompt |-> <<T("p")>>, category |-> "caption",
       description |-> <<T("d")>>],
      [prompt |-> <<T("q")>>, category |-> "grounding", type |-> "text",
       description |-> <<T("d")>>],
      [prompt |-> <<T("p")>>, category |-> "grounding",
       type |-> "ai_labeling", description |-> <<T("d")>>] }

GivenHistories ==
    UNION {[1..n -> GivenEntries] : n \in 0..MaxRows}

\* "category" == "caption" or type in ["text", "caption"]
IsCaptionPrompt(item) ==
    \/ Get(item, "category", "") = "caption"
    \/ Get(item, "type", "") \in {"text", "caption"}

\* the entry set_prompt_history appends for an item it keeps
KeptEntry(item) ==
    [prompt |-> Get(item, "prompt", <<>>),
     category |-> "caption",
     description |-> Get(item, "description", <<>>),
     type |-> Get(item, "type", "")]

\* _add_to_history(prompt, "caption") and the entry of _add_manual_caption
NewEntry(prompt, hist) ==
    [prompt |-> prompt, category |-> "caption", prompt_id |-> Len(hist),
     description |-> <<>>]

\* set_prompt_history(history)
SetPromptHistory ==
    /\ \E given \in GivenHistories :
          LET kept == SelectSeq(given, IsCaptionPrompt)
          IN  /\ _prompt_history' = [i \in DOMAIN kept |-> KeptEntry(kept[i])]
              /\ _caption_history' =
                    [i \in DOMAIN kept |-> Get(kept[i], "prompt", <<>>)]
              /\ current_row' = IF kept # <<>> THEN 1 ELSE 0
              /\ set_argument' = given
    /\ widgetOp' = "set_prompt_history"
    /\ UNCHANGED widgetRest

\* _add_caption_prompt: the dialog, then _add_to_history
AddCaptionPrompt ==
    /\ Len(_caption_history) < MaxRows
    /\ \E text \in DialogTexts, ok \in BOOLEAN :
          LET prompt == Strip(text)
          IN  IF ok /\ Strip(prompt) # <<>>
              THEN /\ _prompt_history' =
                        Append(_prompt_history, NewEntry(Strip(prompt), _prompt_history))
                   /\ _caption_history' = Append(_caption_history, Strip(prompt))
                   /\ current_row' = Len(_caption_history) + 1
              ELSE UNCHANGED <<_prompt_history, _caption_history, current_row>>
    /\ widgetOp' = "_add_caption_prompt"
    /\ set_argument' = <<>>
    /\ UNCHANGED widgetRest

\* _add_manual_caption: the dialog, then the entry and the row
AddManualCaption ==
    /\ Len(_caption_history) < MaxRows
    /\ \E text \in DialogTexts, ok \in BOOLEAN :
          LET prompt == Strip(text)
          IN  IF ok /\ Strip(prompt) # <<>>
              THEN /\ _prompt_history' =
                        Append(_prompt_history, NewEntry(Strip(prompt), _prompt_history))
                   /\ _caption_history' = Append(_caption_history, Strip(prompt))
                   /\ current_row' = Len(_caption_history) + 1
              ELSE UNCHANGED <<_prompt_history, _caption_history, current_row>>
    /\ widgetOp' = "_add_manual_caption"
    /\ set_argument' = <<>>
    /\ UNCHANGED widgetRest

\* the user picks a row of the list
SelectRow ==
    /\ \E row \in DOMAIN _caption_history :
          /\ row # current_row
          /\ current_row' = row
    /\ widgetOp' = "_on_prompt_row_changed"
    /\ set_argument' = <<>>
    /\ UNCHANGED <<_caption_history, _prompt_history>>
    /\ UNCHANGED widgetRest

\* _on_edit_prompt(item): a double click on a row
EditPrompt ==
    /\ \E row \in DOMAIN _caption_history, text \in DialogTexts, ok \in BOOLEAN :
          LET caption_items == CaptionItems(_prompt_history)
              new_prompt == Strip(text)
          IN  IF row > Len(caption_items) THEN
                  UNCHANGED <<_prompt_history, _caption_history, current_row>>
              ELSE IF \/ ~ok
                      \/ Strip(new_prompt) = <<>>
                      \/ new_prompt = caption_items[row].prompt
              THEN UNCHANGED <<_prompt_history, _caption_history, current_row>>
              ELSE
              LET old_entry ==
                      CHOOSE i \in DOMAIN _prompt_history :
                          /\ Get(_prompt_history[i], "category", "") = "caption"
                          /\ Len(CaptionItems(SubSeq(_prompt_history, 1, i))) = row
              IN  /\ _prompt_history' =
                        [_prompt_history EXCEPT ![old_entry].prompt = Strip(new_prompt)]
                  /\ _caption_history' =
                        [_caption_history EXCEPT ![row] = Strip(new_prompt)]
                  /\ current_row' = row
    /\ widgetOp' = "_on_edit_prompt"
    /\ set_argument' = <<>>
    /\ UNCHANGED widgetRest

\* the history after _remove_caption_prompt
remove_caption_prompt(hist, row) ==
    LET caption_items == CaptionItems(hist)
    IN  IF row <= Len(caption_items)
        THEN ListRemove(hist, caption_items[row])
        ELSE hist

\* _remove_caption_prompt: the selected row goes
RemoveCaptionPrompt ==
    /\ current_row >= 1
    /\ _caption_history' = takeItem(_caption_history, current_row)
    /\ _prompt_history' = remove_caption_prompt(_prompt_history, current_row)
    /\ current_row' = IF Len(_caption_history) > 1
                      THEN Min2(current_row, Len(_caption_history) - 1)
                      ELSE 0
    /\ widgetOp' = "_remove_caption_prompt"
    /\ set_argument' = <<>>
    /\ UNCHANGED widgetRest

WidgetInit ==
    /\ _caption_history = <<>>
    /\ current_row = 0
    /\ _prompt_history = <<>>
    /\ set_argument = <<>>
    /\ widgetOp = "__init__"

-----------------------------------------------------------------------------
(* app.py: MainWindow, the task of a shape and the shapes shown            *)
(*                                                                         *)
(* NoTask stands for None: no vlm_task attribute on the shape, or no       *)
(* vlm_task key in its other_data (also when other_data is missing, None   *)
(* or empty).                                                              *)

NoTask == "None"

VlmTasks == {"Detection", "OCR", "Caption"}

\* getattr(shape, 'vlm_task', None) alone
shape_task_direct(shape) == shape.vlm_task

\* shape_task as _filter_labels_by_task and _toggle_shapes_by_task read it:
\* the attribute, else the vlm_task of other_data
shape_task(shape) ==
    IF shape.vlm_task # NoTask THEN shape.vlm_task
    ELSE shape.other_data.vlm_task

\* _toggle_shapes_by_task(task): every item is checked and its shape shown,
\* or unchecked and its shape hidden
toggle_shapes_by_task(items, task) ==
    [i \in DOMAIN items |->
        LET show == shape_task(items[i].shape) = NoTask
                        \/ shape_task(items[i].shape) = task
        IN  [items[i] EXCEPT !.checked = show, !.shape.visible = show]]

\* _filter_labels_by_task(task): the rows of the lists, then the shapes
filter_labels_by_task(items, task) == toggle_shapes_by_task(items, task)

\* _add_task_type_to_shape(shape), has_other_data being
\* hasattr(shape, 'other_data')
add_task_type_to_shape(shape, task, has_other_data) ==
    [shape EXCEPT !.vlm_task = task,
                  !.other_data = IF has_other_data THEN [vlm_task |-> task]
                                 ELSE @]

\* the shapes of a label file as loadLabels reads them: the vlm_task of
\* the shape and that of its other_data ("" when absent), and whether it
\* has points
ShapeDicts ==
    { [vlm_task |-> "", other_task |-> NoTask, points |-> TRUE],
      [vlm_task |-> "Detection", other_task |-> NoTask, points |-> TRUE],
      [vlm_task |-> "OCR", other_task |-> "OCR", points |-> TRUE],
      [vlm_task |-> "", other_task |-> "OCR", points |-> TRUE],
      [vlm_task |-> "Detection", other_task |-> NoTask, points |-> FALSE] }

\* the Shape loadLabels makes of a dict
LoadedShape(shape_dict) ==
    [label |-> "a",
     vlm_task |-> IF shape_dict.vlm_task # "" THEN shape_dict.vlm_task
                  ELSE NoTask,
     other_data |-> [vlm_task |-> IF shape_dict.vlm_task # ""
                                  THEN shape_dict.vlm_task
                                  ELSE shape_dict.other_task],
     visible |-> TRUE]

\* an item of the label list; drawn_in is the task that was current when
\* the user drew the shape, NoTask for a shape that was loaded
Item(shape, drawn_in) ==
    [shape |-> shape, checked |-> TRUE, drawn_in |-> drawn_in]

\* _handle_vlm_subcategory_change(subcategory)
HandleSubcategoryChange ==
    /\ \E subcategory \in VlmTasks :
          /\ _current_vlm_task' = subcategory
          /\ IF subcategory = "Caption"
             THEN docks_visible' = FALSE /\ UNCHANGED labelList
             ELSE /\ docks_visible' = TRUE
                  /\ labelList' = filter_labels_by_task(labelList, subcategory)
    /\ windowOp' = "_handle_vlm_subcategory_change"
    /\ UNCHANGED windowRest

\* newShape: the label dialog, then the tag and the item; no shape when
\* the dialog gives no label
NewShape ==
    /\ Len(labelList) < MaxShapes
    /\ \E text \in {"", "a"}, has_other_data \in BOOLEAN :
          IF text # ""
          THEN LET drawn == [label |-> text, vlm_task |-> NoTask,
                             other_data |-> [vlm_task |-> NoTask],
                             visible |-> TRUE]
                   shape == add_task_type_to_shape(drawn, _current_vlm_task,
                                                   has_other_data)
               IN  labelList' = Append(labelList, Item(shape, _current_vlm_task))
          ELSE UNCHANGED labelList
    /\ windowOp' = "newShape"
    /\ UNCHANGED <<_current_vlm_task, docks_visible>>
    /\ UNCHANGED windowRest

\* loadShapes(shapes, replace): one more item per shape, then the
\* filtering by the current task; the caller of replace=True has cleared
\* the list
loadShapes(items, new_shapes, drawn_in, task) ==
    filter_labels_by_task(
        items \o [i \in DOMAIN new_shapes |-> Item(new_shapes[i], drawn_in)],
        task)

\* loadLabels(shapes) of a file just opened: the shapes with points, then
\* loadShapes and its filtering by the current task
LoadLabels ==
    /\ \E n \in 0..MaxShapes :
          \E dicts \in [1..n -> ShapeDicts] :
              LET s == SelectSeq(dicts, LAMBDA d : d.points)
              IN  labelList' = filter_labels_by_task(
                                  loadShapes(<<>>, [i \in DOMAIN s |-> LoadedShape(s[i])],
                                             NoTask, _current_vlm_task),
                                  _current_vlm_task)
    /\ windowOp' = "loadShapes"
    /\ UNCHANGED <<_current_vlm_task, docks_visible>>
    /\ UNCHANGED windowRest

\* duplicateSelectedShape: a copy of a shape, pasted
DuplicateSelectedShape ==
    /\ Len(labelList) < MaxShapes
    /\ \E i \in DOMAIN labelList :
          labelList' = loadShapes(labelList, <<labelList[i].shape>>,
                                  labelList[i].drawn_in, _current_vlm_task)
    /\ windowOp' = "loadShapes"
    /\ UNCHANGED <<_current_vlm_task, docks_visible>>
    /\ UNCHANGED windowRest

\* __init__: Detection, and the docks shown for it
WindowInit ==
    /\ _current_vlm_task = "Detection"
    /\ labelList = <<>>
    /\ docks_visible = TRUE
    /\ windowOp = "__init__"

CodecIdle ==
    /\ records = <<>>
    /\ img = [w |-> 1, h |-> 1]
    /\ shapes = <<>>
    /\ origin = "none"
    /\ response = [ok |-> TRUE, text |-> <<>>]
    /\ reparsed = <<>>
    /\ codecPc = "input"

InitParse == ParseInit /\ ClassInit /\ CodecIdle /\ ExportInit /\ BatchInit
             /\ DetectInit /\ HistoryInit /\ FormatInit /\ TripInit /\ WidgetInit /\ WindowInit

NextParse ==
    \/ AppendTag
    \/ AppendOddTag
    \/ AppendProse
    \/ ParseResponse

SpecParse == InitParse /\ [][NextParse]_vars

NextClassify ==
    \/ AppendTurn
    \/ AnalyzeFile

SpecClassify == InitParse /\ [][NextClassify]_vars

InitCodec == ParseInit /\ ClassInit /\ CodecInit /\ ExportInit /\ BatchInit
             /\ DetectInit /\ HistoryInit /\ FormatInit /\ TripInit /\ WidgetInit /\ WindowInit

NextCodec ==
    \/ AddRecord
    \/ LoadShapes
    \/ ConvertDetections
    \/ DrawShape
    \/ Encode
    \/ Reparse

SpecCodec == InitCodec /\ [][NextCodec]_vars

InitBatch == InitParse

InitDetect == InitParse

NextDetect ==
    \/ AppendResponseTag
    \/ AppendJsonArray
    \/ AppendResponseProse
    \/ DetectObjects

SpecDetect == InitDetect /\ [][NextDetect]_vars

InitHistory == InitParse

NextHistory ==
    \/ AppendPair
    \/ AppendSingle
    \/ ReconstructHistory

SpecHistory == InitHistory /\ [][NextHistory]_vars

InitFormat == InitParse

NextFormat ==
    \/ WriteOtherFile
    \/ WriteConversation
    \/ WriteEmptyConversation
    \/ CheckFormat

SpecFormat == InitFormat /\ [][NextFormat]_vars

InitTrip == InitParse

NextTrip ==
    \/ AppendDocumentPair
    \/ OmitImageKey
    \/ RemoveImage
    \/ LoadDocument
    \/ ExportLoaded

SpecTrip == InitTrip /\ [][NextTrip]_vars

InitWidget == InitParse

NextWidget ==
    \/ SetPromptHistory
    \/ AddCaptionPrompt
    \/ AddManualCaption
    \/ SelectRow
    \/ EditPrompt
    \/ RemoveCaptionPrompt

SpecWidget == InitWidget /\ [][NextWidget]_vars

InitWindow == InitParse

NextWindow ==
    \/ HandleSubcategoryChange
    \/ NewShape
    \/ LoadLabels
    \/ DuplicateSelectedShape

SpecWindow == InitWindow /\ [][NextWindow]_vars

NextBatch ==
    \/ AddInputFile
    \/ ConvertDirectory

SpecBatch == InitBatch /\ [][NextBatch]_vars

Init == InitParse

Next ==
    \/ AddShape
    \/ AddCaption
    \/ AddPrompt
    \/ SetDescription
    \/ SetImageData
    \/ ConversationExport
    \/ ExportSingleFile
    \/ ExportToDirectory
    \/ ShareGPTExport

Spec == Init /\ [][Next]_vars

-----------------------------------------------------------------------------
(* Properties of _parse_gpt_annotations *)

Matches == findall(gpt_response)

\* every token of the match's bracket parses as a number
Numeric(m) == \A p \in DOMAIN CoordPieces(m) : FloatOk(CoordPieces(m)[p])

CoordCount(m) == Len(CoordPieces(m))

ValidCount(n) == n = 2 \/ n = 4 \/ (n >= 6 /\ n % 2 = 0)

KindOfCount(n) ==
    CASE n = 2 -> "point"
      [] n = 4 -> "bbox"
      [] n >= 6 /\ n % 2 = 0 -> "polygon"
      [] OTHER -> "rejected"

\* C3: the geometry kind of a parsed annotation is decided by its
\* coordinate count alone: 2 is a point, 4 a bbox, an even count >= 6 a
\* polygon; a tag with any other count yields no record.
GeometryKindByCount ==
    parsePc = "done" =>
        LET ms == Matches
            \* the count of a well-formed occurrence, 0 for a malformed one
            counts == [j \in DOMAIN ms |->
                         IF Numeric(ms[j]) THEN CoordCount(ms[j]) ELSE 0]
            seen == {counts[j] : j \in DOMAIN ms}
                      \cup {Len(annotations[i].coordinates) : i \in DOMAIN annotations}
        IN  /\ \A i \in DOMAIN annotations :
                  annotations[i].annotation_type
                      = KindOfCount(Len(annotations[i].coordinates))
            /\ \A n \in seen \ {0} :
                  Cardinality({i \in DOMAIN annotations :
                                  Len(annotations[i].coordinates) = n})
                      = IF ValidCount(n)
                        THEN Cardinality({j \in DOMAIN ms : counts[j] = n})
                        ELSE 0

\* a parsed text with a rejected tag of 5 or more numbers next to a polygon
GeometryKindWitness ==
    /\ parsePc = "done"
    /\ \E j \in DOMAIN Matches :
          /\ Numeric(Matches[j])
          /\ CoordCount(Matches[j]) >= 5
          /\ CoordCount(Matches[j]) % 2 = 1
    /\ \E i \in DOMAIN annotations : annotations[i].annotation_type = "polygon"

GoodMatch(m) == Numeric(m) /\ ValidCount(CoordCount(m))

RecordOfMatch(m) ==
    [label |-> Strip(m.label),
     coordinates |-> [p \in DOMAIN CoordPieces(m) |-> FloatVal(CoordPieces(m)[p])],
     annotation_type |-> KindOfCount(CoordCount(m))]

\* C4: the parser returns exactly one record per tag occurrence whose
\* tokens are all numbers and whose count is valid, in the order of the
\* occurrences and with the trimmed label; the other occurrences remove
\* only themselves.
OneRecordPerGoodTag ==
    parsePc = "done" =>
        LET good == Indices(Matches, 1,
                        {j \in DOMAIN Matches : GoodMatch(Matches[j])})
        IN  annotations = [k \in DOMAIN good |-> RecordOfMatch(Matches[good[k]])]

\* a parsed text where a dropped occurrence stands before a returned one
OneRecordPerGoodTagWitness ==
    /\ parsePc = "done"
    /\ Len(Matches) = 2
    /\ ~Numeric(Matches[1])
    /\ GoodMatch(Matches[2])
    /\ Len(annotations) = 1

-----------------------------------------------------------------------------
(* Properties of the classification of turns *)

IsPairAt(i) ==
    /\ i + 1 <= Len(conversations)
    /\ conversations[i].from = "human"
    /\ conversations[i + 1].from = "gpt"

\* the positions the greedy left-to-right scan stops at
RECURSIVE ScanStops(_)
ScanStops(i) ==
    IF i < 1 THEN FALSE
    ELSE IF i = 1 THEN TRUE
    ELSE \/ ScanStops(i - 1) /\ ~IsPairAt(i - 1)
         \/ ScanStops(i - 2) /\ IsPairAt(i - 2)

\* the first positions of the Human->Model units of the scan
Units == {i \in DOMAIN conversations : ScanStops(i) /\ IsPairAt(i)}

GroundingUnits ==
    {i \in Units : parse_gpt_annotations(conversations[i + 1].value) # <<>>}

TextUnits == Units \ GroundingUnits

Occurrences(s, x) == Cardinality({j \in DOMAIN s : s[j] = x})

Ascending(s) == \A j \in 1..(Len(s) - 1) : s[j].id < s[j + 1].id

\* C1: separate_conversation_types partitions the turns: every turn is in
\* exactly one of the two lists, both lists keep the input order, and a
\* turn is in the grounding list exactly when it belongs to a unit of the
\* greedy scan whose Model text has at least one annotation.
SeparatePartitions ==
    classPc = "done" =>
        /\ Len(grounding_conversations) + Len(text_conversations)
              = Len(conversations)
        /\ \A i \in DOMAIN conversations :
              Occurrences(grounding_conversations, conversations[i])
                + Occurrences(text_conversations, conversations[i]) = 1
        /\ Ascending(grounding_conversations)
        /\ Ascending(text_conversations)
        /\ \A i \in DOMAIN conversations :
              Occurrences(grounding_conversations, conversations[i]) = 1
                  <=> (i \in GroundingUnits \/ (i - 1) \in GroundingUnits)

\* a document with a grounding unit followed by a trailing unpaired turn
SeparatePartitionsWitness ==
    /\ classPc = "done"
    /\ Len(conversations) = 3
    /\ GroundingUnits = {1}
    /\ Len(grounding_conversations) = 2
    /\ Len(text_conversations) = 1

\* C2: the statistics match the partition: the grounding count is the
\* number of grounding units, the pure-text count the number of pure-text
\* units (with or without the unpaired turns), the total the number of
\* turns, and the annotation count the number of records of the grounding
\* units' Model turns.
StatsMatchPartition ==
    classPc = "done" =>
        /\ stats.total_conversations = Len(conversations)
        /\ stats.grounding_conversations = Cardinality(GroundingUnits)
        /\ stats.grounding_conversations * 2 = Len(grounding_conversations)
        /\ \/ stats.pure_text_conversations = Cardinality(TextUnits)
           \/ stats.pure_text_conversations
                 = Len(text_conversations) - Cardinality(TextUnits)
        /\ stats.total_annotations
              = SumSeq([j \in DOMAIN grounding_conversations |->
                    IF grounding_conversations[j].from = "gpt"
                    THEN Len(parse_gpt_annotations(
                                 grounding_conversations[j].value))
                    ELSE 0])

-----------------------------------------------------------------------------
(* Properties of the response grammar and of the conversions *)

Encoded == codecPc \in {"encoded", "reparsed"}

\* the shapes the grammar renders
Rendered == SelectSeq(shapes, LAMBDA sh : sh.shape_type \in SupportedTypes)

PartOf(sh) == Tag(sh.label, CoordStr(sh, img.w, img.h))

\* r0, r1, ..., and r_last
RECURSIVE CommaList(_)
CommaList(rs) ==
    IF Len(rs) = 1 THEN <<T(", and ")>> \o PartOf(rs[1])
    ELSE <<T(", ")>> \o PartOf(Head(rs)) \o CommaList(Tail(rs))

JoiningRule(rs) ==
    CASE Len(rs) = 0 -> NothingSentence
      [] Len(rs) = 1 ->
            <<T("There is ")>> \o PartOf(rs[1]) \o <<T(" in the image.")>>
      [] Len(rs) = 2 ->
            <<T("There are ")>> \o PartOf(rs[1]) \o <<T(" and ")>>
                \o PartOf(rs[2]) \o <<T(" in the image.")>>
      [] OTHER ->
            <<T("There are ")>> \o PartOf(rs[1]) \o CommaList(Tail(rs))
                \o <<T(" in the image.")>>

\* C5: the response follows the joining rule for the N rendered records,
\* N = 0 giving the fixed sentence; encoding never fails.
ResponseFollowsJoiningRule ==
    Encoded => response.ok /\ response.text = JoiningRule(Rendered)

AllRendered == \A i \in DOMAIN shapes : shapes[i].shape_type \in SupportedTypes

\* the joining rule, in the cases where at least one record is rendered or
\* there is no shape at all
JoiningRuleWhenRendered ==
    Encoded /\ (Rendered # <<>> \/ shapes = <<>>) =>
        response.ok /\ response.text = JoiningRule(Rendered)

Abs(x) == IF x < 0 THEN -x ELSE x

\* the shapes are the loader's shapes of the records, nothing else
FromRecords == origin = "loader" /\ Len(shapes) = Len(records)

\* C6: parsing the text encoded from records returns as many records, in
\* the same order, with the same labels and with every coordinate within
\* 0.001 of the original.
RoundTripLaw ==
    codecPc = "reparsed" /\ FromRecords =>
        /\ Len(reparsed) = Len(records)
        /\ \A i \in DOMAIN reparsed :
              /\ i \in DOMAIN records
              /\ reparsed[i].label = records[i].label
              /\ Len(reparsed[i].coordinates) = Len(records[i].coordinates)
              /\ \A c \in DOMAIN reparsed[i].coordinates :
                    c \in DOMAIN records[i].coordinates =>
                    Abs(reparsed[i].coordinates[c] - records[i].coordinates[c])
                        <= Milli

\* the round trip of the records whose label is not empty
RoundTripOfLabelled ==
    codecPc = "reparsed" /\ FromRecords
        /\ (\A i \in DOMAIN records : records[i].label # <<>>) =>
        /\ Len(reparsed) = Len(records)
        /\ \A i \in DOMAIN reparsed :
              /\ reparsed[i].label = records[i].label
              /\ reparsed[i].annotation_type = records[i].annotation_type
              /\ Len(reparsed[i].coordinates) = Len(records[i].coordinates)
              /\ \A c \in DOMAIN reparsed[i].coordinates :
                    Abs(reparsed[i].coordinates[c] - records[i].coordinates[c])
                        <= Milli

-----------------------------------------------------------------------------
(* Export: task partition, empty input, missing image data *)

Documents == UNION {Range(files[f]) : f \in FileNames}

Contains(text, piece) ==
    \E k \in 0..(Len(text) - Len(piece)) :
        SubSeq(text, k + 1, k + Len(piece)) = piece

\* the bbox_2d object of shape i stands in a Model turn of document d
ShapeInDocument(i, d) ==
    /\ HasJsonObject(label_file.shapes[i])
    /\ \E t \in DOMAIN d.conversations :
          /\ d.conversations[t].from = "gpt"
          /\ Contains(d.conversations[t].value,
                      JsonObject(label_file.shapes[i], ExportImg.w, ExportImg.h))

TaskGroupedOps ==
    { "ShareGPTExporter.export_single_file",
      "ShareGPTExporter.export_to_directory",
      "ShareGPTExporter.export" }

Failure(r) ==
    \/ r.kind = "bool" /\ ~r.b
    \/ r.kind = "int" /\ r.n = 0

NothingToExport ==
    /\ label_file.shapes = <<>>
    /\ label_file.otherData.prompt_history = <<>>
    /\ label_file.otherData.caption_history = <<>>
    /\ Strip(label_file.otherData.vlm_description) = <<>>

\* C8: after a task-grouped export, in every export path, a shape whose
\* bbox_2d object stands in a document carries that document's task tag;
\* so a Detection document holds only shapes tagged Detection, an OCR
\* document only shapes tagged OCR, and an untagged shape is in no document.
StrictTaskPartition ==
    op \in TaskGroupedOps =>
        \A d \in Documents : \A i \in DOMAIN label_file.shapes :
            ShapeInDocument(i, d) => label_file.shapes[i].vlm_task = d.task

\* C9: an export of a label file with no shapes, no history and no
\* description reports failure and leaves no file, and no document written
\* by any export has an empty conversations list.
NoContentFails ==
    /\ (op # "none" /\ NothingToExport) => (Failure(ret) /\ files = NoFiles)
    /\ \A d \in Documents : d.conversations # <<>>

\* C10: an export of a label file without image data returns its failure
\* value (False, or 0 files) and no output file exists afterwards.
MissingImageFailsFast ==
    (op # "none" /\ ~label_file.imageData) =>
        (Failure(ret) /\ files = NoFiles)

MissingImageFailsFastWitness ==
    /\ op = "ShareGPTExporter.export_to_directory"
    /\ ~label_file.imageData
    /\ label_file.shapes # <<>>
    /\ label_file.otherData.caption_history # <<>>
    /\ ret = IntRet(0)
    /\ files = NoFiles

-----------------------------------------------------------------------------
(* Directory-batch conversion *)

\* the documents in output_dir written from input file i
WrittenFrom(i) ==
    {d \in Range(output_files[OutputStem(input_files[i].stem)]) :
        d.image = <<input_files[i].dir, input_files[i].stem>>}

\* C11: after a directory run, an input file whose image was not found is
\* not converted: no document in the output directory comes from it, and
\* the success count does not count it.
NoGuessedDimensions ==
    batchPc = "done" =>
        /\ \A i \in DOMAIN input_files :
              input_files[i].image = "none" =>
                  results[i] # "converted" /\ WrittenFrom(i) = {}
        /\ success_count
              <= Cardinality({i \in DOMAIN input_files :
                                input_files[i].image # "none"})

-----------------------------------------------------------------------------
(* Export: atomicity, turn order *)

\* C12: an export that reports failure (False, or 0 files) has created no
\* output file: files exist only after an export that reports success.
FailedExportWritesNothing ==
    (op # "none" /\ Failure(ret)) => files = NoFiles

\* the document written by the single-document export
SingleDocument == files[<<"conversation", 0>>][1]

SingleExported ==
    /\ op = "ConversationFormatExporter.export"
    /\ ret = BoolRet(TRUE)

\* how many turns stand for the shapes, and for the description
ShapeTurns == IF label_file.shapes # <<>> THEN 2 ELSE 0

DescriptionTurns ==
    IF /\ include_text_conversations
       /\ Strip(label_file.otherData.vlm_description) # <<>>
    THEN 2 ELSE 0

\* the turns between the shapes' pair and the description's pair
HistoryTurns ==
    LET c == SingleDocument.conversations
    IN  SubSeq(c, ShapeTurns + 1, Len(c) - DescriptionTurns)

IsPair(c, k, prompt, answer) ==
    /\ c[k].from = "human" /\ c[k].value = prompt
    /\ c[k + 1].from = "gpt" /\ c[k + 1].value = answer

\* C13: the turns of a single-document export are, in this order: one
\* Human/Model pair for all the shapes iff there is a shape, pairs taken
\* from prompt-history entries in history order, and one Human/Model pair
\* with the description iff it is not blank and text conversations are
\* requested; there is no other turn.
SingleDocumentTurnOrder ==
    SingleExported =>
        LET c == SingleDocument.conversations
            h == HistoryTurns
            ph == label_file.otherData.prompt_history
        IN  /\ Len(c) >= ShapeTurns + DescriptionTurns
            /\ ShapeTurns = 2 =>
                  IsPair(c, 1, GroundingPrompt(label_file.shapes),
                         format_annotations_in_response(label_file.shapes,
                             ExportImg.w, ExportImg.h).text)
            /\ DescriptionTurns = 2 =>
                  IsPair(c, Len(c) - 1,
                         <<T("Describe what you see in the image.")>>,
                         label_file.otherData.vlm_description)
            /\ Len(h) % 2 = 0
            /\ \E from \in [1..(Len(h) \div 2) -> DOMAIN ph] :
                  /\ \A a, b \in DOMAIN from : a < b => from[a] < from[b]
                  /\ \A k \in DOMAIN from :
                        IsPair(h, 2 * k - 1, ph[from[k]].prompt,
                               ph[from[k]].description)

\* an export with a shape, two different history pairs and a description
SingleDocumentTurnOrderWitness ==
    /\ SingleExported
    /\ label_file.shapes # <<>>
    /\ Len(HistoryTurns) = 4
    /\ HistoryTurns[1].value # HistoryTurns[3].value
    /\ DescriptionTurns = 2
    /\ Len(SingleDocument.conversations) = 8

\* C14: the history turns of a single-document export are one Human/Model
\* pair per prompt-history entry of category grounding, in order, and none
\* for an entry of category caption.
HistoryPairsAreGrounding ==
    SingleExported =>
        LET h == HistoryTurns
            g == SelectSeq(label_file.otherData.prompt_history,
                           LAMBDA e : e.category = "grounding")
        IN  /\ Len(h) = 2 * Len(g)
            /\ \A k \in DOMAIN g :
                  IsPair(h, 2 * k - 1, g[k].prompt, g[k].description)


-----------------------------------------------------------------------------
(* Detection response: schema selection, JSON schemas, box conversion *)

\* the text without the whitespace and the code-fence markers at its ends
RECURSIVE StripMarkers(_)
StripMarkers(s) ==
    IF s = <<>> THEN s
    ELSE IF Head(s).k \in {" ", "fence", "json"} THEN StripMarkers(Tail(s))
    ELSE IF s[Len(s)].k \in {" ", "fence"}
         THEN StripMarkers(SubSeq(s, 1, Len(s) - 1))
    ELSE s

LooksLikeJsonArray(text) ==
    LET c == StripMarkers(text)
    IN  c # <<>> /\ c[1].k = "[" /\ c[Len(c)].k = "]"

HasFencedBlock(text) ==
    \E i, j \in DOMAIN text :
        i + 1 < j /\ text[i].k = "fence" /\ text[j].k = "fence"

\* C15: an answer holding at least one <p>label</p>[coords] occurrence is
\* handled as embedded-tag text; otherwise an answer that, stripped of
\* whitespace and code-fence markers, starts with '[' and ends with ']', or
\* that holds a fenced block, is handled as a JSON array; any other answer
\* is unrecognized and gives the caller no detection and the raw text
SchemaSelectionPriority ==
    detectPc = "done" =>
        IF findall(raw_output) # <<>>
        THEN detected.schema = "conversation"
        ELSE IF LooksLikeJsonArray(raw_output) \/ HasFencedBlock(raw_output)
        THEN detected.schema = "json"
        ELSE /\ detected.schema = "unrecognized"
             /\ ~detected.error
             /\ detected.shapes = <<>>
             /\ detected.description_text = raw_output

\* the elements of the array in the answer, in order
Elements ==
    LET toks == SelectSeq(raw_output, LAMBDA tok : tok.k = "item")
    IN  [i \in DOMAIN toks |-> JsonItems[toks[i].n]]

SchemaKeys ==
    [A |-> {"bbox", "label"}, B |-> {"bbox_2d", "label"},
     C |-> {"position", "type"}]

Fits(e, S) == e.isdict /\ SchemaKeys[S] \subseteq DOMAIN e.obj

AllFit(S) == \A i \in DOMAIN Elements : Fits(Elements[i], S)

\* the box and the label of an element read under a schema
BoxUnder(e, S) ==
    IF S = "A" THEN e.obj.bbox
    ELSE IF S = "B" THEN e.obj.bbox_2d
    ELSE <<e.obj.position.x, e.obj.position.y,
           e.obj.position.x, e.obj.position.y>>

LabelUnder(e, S) == IF S = "C" THEN e.obj.type ELSE e.obj.label

\* the first schema, in the order A, B, C, that every element fits
FirstSchema ==
    IF AllFit("A") THEN "A" ELSE IF AllFit("B") THEN "B"
    ELSE IF AllFit("C") THEN "C" ELSE "none"

\* C16: parse_vlm_json_response either returns one record for every element
\* of the array, all read under the same schema (the first of A, B, C that
\* every element fits), or fails; it never returns records for some of the
\* elements only
WholeArrayOneSchema ==
    (detectPc = "done" /\ detected.schema = "json") =>
        LET recs == detected.detection_dicts
        IN  IF detected.error
            THEN recs = <<>> /\ detected.shapes = <<>>
            ELSE /\ FirstSchema # "none"
                 /\ Len(recs) = Len(Elements)
                 /\ \A i \in DOMAIN recs :
                       /\ recs[i].bbox = BoxUnder(Elements[i], FirstSchema)
                       /\ recs[i].label = LabelUnder(Elements[i], FirstSchema)

\* an array of two elements of one schema that is not Schema A was parsed
WholeArrayOneSchemaWitness ==
    /\ detectPc = "done"
    /\ detected.schema = "json"
    /\ ~detected.error
    /\ Len(detected.detection_dicts) = 2
    /\ FirstSchema = "B"
    /\ Elements[1] # Elements[2]

\* what a record says: box, label, and the optional fields as read with
\* their defaults
Canonical(recs) ==
    [i \in DOMAIN recs |->
        [bbox |-> recs[i].bbox,
         label |-> recs[i].label,
         description |-> Get(recs[i], "description", <<>>),
         confidence |-> Get(recs[i], "confidence", None)]]

Optional == {"description", "confidence"}

\* the same element written with the keys of schema R ("A" or "B")
Rekeyed(e, S, R) ==
    LET box == IF R = "A" THEN "bbox" ELSE "bbox_2d"
    IN  [isdict |-> TRUE,
         obj |-> [key \in {box, "label"} \cup (DOMAIN e.obj \cap Optional) |->
                     IF key = box THEN BoxUnder(e, S)
                     ELSE IF key = "label" THEN LabelUnder(e, S)
                     ELSE e.obj[key]]]

\* C17: an array of bbox_2d/label objects, the same array written with
\* bbox/label, and an array of position/type objects written as the boxes
\* [x,y,x,y], normalize to the same records: the same boxes and labels in
\* the same order, description and confidence kept
SchemasNormalizeAlike ==
    (detectPc = "done" /\ detected.schema = "json" /\ ~detected.error) =>
        \A R \in {"A", "B"} :
            LET same == [i \in DOMAIN Elements |->
                            Rekeyed(Elements[i], FirstSchema, R)]
            IN  /\ MatchSchema(same).ok
                /\ Canonical(MatchSchema(same).detections)
                       = Canonical(detected.detection_dicts)

\* an array of two elements that is not under Schema A, one of them carrying
\* a description, was normalized
SchemasNormalizeAlikeWitness ==
    /\ detectPc = "done"
    /\ detected.schema = "json"
    /\ ~detected.error
    /\ Len(Elements) = 2
    /\ FirstSchema \in {"B", "C"}
    /\ \E i \in DOMAIN Elements : "description" \in DOMAIN Elements[i].obj

\* C18: on an answer handled as embedded-tag text the records of
\* parse_conversation_format_response are those of the loader's
\* _parse_gpt_annotations on the same text (same count, order, labels and
\* coordinates), and the description returned is the raw text unchanged
ResponseParserIsCodec ==
    (detectPc = "done" /\ detected.schema = "conversation") =>
        LET recs == detected.detection_dicts
            codec == parse_gpt_annotations(raw_output)
        IN  /\ Len(recs) = Len(codec)
            /\ \A i \in DOMAIN recs :
                  /\ recs[i].label = codec[i].label
                  /\ recs[i].bbox = codec[i].coordinates
            /\ detected.description_text = raw_output

\* the mode convert_detections_to_labelme_shapes ran in, by the branch taken
NormalizedMode == detected.schema = "conversation"

\* the pixel a coordinate is scaled to, before the corners are ordered
ScaledX(c) ==
    IF NormalizedMode THEN Trunc(c * img_shape.w, Den)
    ELSE Trunc(c * img_shape.w, in_size.w * Den)
ScaledY(c) ==
    IF NormalizedMode THEN Trunc(c * img_shape.h, Den)
    ELSE Trunc(c * img_shape.h, in_size.h * Den)

\* C19: every rectangle of convert_detections_to_labelme_shapes, in the
\* normalized and in the model-input-space mode, has its first point less
\* than or equal to its second on the x axis and on the y axis, each axis
\* holding the two scaled values of that axis (swapped on its own when
\* needed), and carries the label of its detection
RectanglesAreMinMax ==
    (detectPc = "done" /\ ~detected.error) =>
        /\ Len(detected.shapes) = Len(detected.detection_dicts)
        /\ \A i \in DOMAIN detected.shapes :
              LET p == detected.shapes[i].points
                  b == detected.detection_dicts[i].bbox
              IN  /\ p[1][1] <= p[2][1]
                  /\ p[1][2] <= p[2][2]
                  /\ p[1][1] = Min2(ScaledX(b[1]), ScaledX(b[3])) * Den
                  /\ p[2][1] = Max2(ScaledX(b[1]), ScaledX(b[3])) * Den
                  /\ p[1][2] = Min2(ScaledY(b[2]), ScaledY(b[4])) * Den
                  /\ p[2][2] = Max2(ScaledY(b[2]), ScaledY(b[4])) * Den
                  /\ detected.shapes[i].label = detected.detection_dicts[i].label

\* a box given with its x corners reversed and its y corners in order was
\* converted in the model-input-space mode, next to one reversed in y only
RectanglesAreMinMaxWitness ==
    /\ detectPc = "done"
    /\ detected.schema = "json"
    /\ ~detected.error
    /\ \E i, j \in DOMAIN detected.shapes :
          LET a == detected.detection_dicts[i].bbox
              b == detected.detection_dicts[j].bbox
          IN  /\ ScaledX(a[1]) > ScaledX(a[3]) /\ ScaledY(a[2]) < ScaledY(a[4])
              /\ ScaledX(b[1]) < ScaledX(b[3]) /\ ScaledY(b[2]) > ScaledY(b[4])

-----------------------------------------------------------------------------
(* Prompt history reconstruction *)

\* the human/gpt units of a turn sequence, scanned greedily from turn i
RECURSIVE UnitsFrom(_, _)
UnitsFrom(s, i) ==
    IF i >= Len(s) THEN <<>>
    ELSE IF s[i]["from"] = "human" /\ s[i + 1]["from"] = "gpt"
         THEN <<[human |-> s[i], gpt |-> s[i + 1]]>> \o UnitsFrom(s, i + 2)
         ELSE UnitsFrom(s, i + 1)

TagCategory ==
    [Grounding |-> "grounding"] @@ ("Region Captioning" :> "grounding")
        @@ ("Image Captioning" :> "caption")

\* C20: the reconstructed history has one entry per human/gpt unit of the
\* greedy scan, in order; an entry's category is that of the unit's tag
\* when it is Grounding, Region Captioning or Image Captioning, and without
\* a tag it is grounding exactly when the answer parses to a record;
\* detected labels and detection count are on grounding entries only, and
\* the count is the number of records the answer parses to
HistoryFollowsUnits ==
    historyPc = "done" =>
        LET units == UnitsFrom(turns, 1)
        IN  /\ Len(history) = Len(units)
            /\ \A n \in DOMAIN history :
                  LET e == history[n]
                      u == units[n]
                      parsed == parse_gpt_annotations(u.gpt.value)
                  IN  /\ e.prompt = u.human.value
                      /\ e.description = u.gpt.value
                      /\ e.category \in {"grounding", "caption"}
                      /\ "attribute" \in DOMAIN u.human
                            /\ u.human.attribute \in DOMAIN TagCategory
                         => e.category = TagCategory[u.human.attribute]
                      /\ "attribute" \notin DOMAIN u.human
                         => (e.category = "grounding" <=> parsed # <<>>)
                      /\ "detected_objects" \in DOMAIN e
                            <=> "detection_count" \in DOMAIN e
                      /\ "detection_count" \in DOMAIN e
                         => /\ e.category = "grounding"
                            /\ e.detection_count = Len(parsed)
                            /\ e.detected_objects
                                  = [a \in DOMAIN parsed |-> parsed[a].label]

\* a history of two entries: a unit tagged Image Captioning whose answer
\* holds tags, and a unit without tag whose answer holds tags
HistoryFollowsUnitsWitness ==
    /\ historyPc = "done"
    /\ Len(history) = 2
    /\ \E n, m \in DOMAIN history :
          /\ history[n].category = "caption"
          /\ parse_gpt_annotations(history[n].description) # <<>>
          /\ history[m].category = "grounding"
          /\ "detection_count" \in DOMAIN history[m]
          /\ history[m].detection_count = 2

-----------------------------------------------------------------------------
(* Recognition of a conversation file *)

\* C21: a file is recognized as conversation format exactly when it holds a
\* JSON object with a conversations array whose every element is an object
\* with from, being "human" or "gpt", and value; anything else, and a file
\* that cannot be read or parsed, gives False
RecognizedIffWellFormed ==
    formatPc = "done" =>
        (is_conv <=>
            /\ conv_file.readable
            /\ conv_file.json_ok
            /\ conv_file.data.isdict
            /\ "conversations" \in DOMAIN conv_file.data.obj
            /\ conv_file.data.obj.conversations.islist
            /\ \A e \in Range(conv_file.data.obj.conversations.items) :
                  /\ e.isdict
                  /\ {"from", "value"} \subseteq DOMAIN e.obj
                  /\ e.obj["from"] \in {"human", "gpt"})

\* a file of a human and a gpt turn was recognized
RecognizedIffWellFormedWitness ==
    /\ formatPc = "done"
    /\ is_conv
    /\ Len(conv_file.data.obj.conversations.items) >= 2

-----------------------------------------------------------------------------
(* Directory-batch conversion: the file filter, distinct outputs *)

HasMarker(stem) == \E k \in DOMAIN stem : stem[k] = Marker

\* C22: in a directory run a JSON file is handed to conversion exactly when
\* its stem does not hold the marker _sharegpt, it has not both
\* conversations and task, and it has shapes or caption_history; so a file
\* of output_dir written by an earlier run is never converted, also when
\* output_dir lies under input_dir
FilterAndNoReconversion ==
    batchPc = "done" =>
        /\ Len(results) = Len(found_files)
        /\ \A i \in DOMAIN found_files :
              LET file == found_files[i]
              IN  /\ results[i] # "skipped"
                     <=> /\ ~HasMarker(file.stem)
                         /\ ~("conversations" \in file.data.keys
                               /\ "task" \in file.data.keys)
                         /\ \/ "shapes" \in file.data.keys
                            \/ "caption_history" \in file.data.keys
                  /\ file.dir = "out" => results[i] = "skipped"

\* a second run, output_dir under input_dir, found a file the first run
\* wrote, next to an input file it converted again
FilterAndNoReconversionWitness ==
    /\ batchPc = "done"
    /\ runs = 2
    /\ out_under_in
    /\ \E i, j \in DOMAIN found_files :
          /\ found_files[i].dir = "out"
          /\ found_files[j].dir # "out"
          /\ results[j] = "converted"

\* the files output_dir holds
Outputs == {st \in DOMAIN output_files : output_files[st] # <<>>}

\* C28: a directory run writes one result file per converted input: two
\* distinct input files converted in the same run are written to two
\* distinct output files, and the number of output files equals the
\* success count reported
OneOutputPerConverted ==
    batchPc = "done" =>
        /\ \A i, j \in DOMAIN found_files :
              (i # j /\ results[i] = "converted" /\ results[j] = "converted")
                 => OutputStem(found_files[i].stem)
                       # OutputStem(found_files[j].stem)
        /\ Cardinality(Outputs) = success_count

-----------------------------------------------------------------------------
(* export_to_directory: the number returned and the files created *)

\* the files that exist after the export
FilesCreated == {f \in FileNames : files[f] # <<>>}

DirectoryExported == op = "ShareGPTExporter.export_to_directory"

\* the caption entries with both texts, by their place in the history
ValidCaptionIndices ==
    {i \in DOMAIN label_file.otherData.caption_history :
        ValidCaption(label_file.otherData.caption_history[i])}

\* C27: export_to_directory returns the number of files it created, also
\* when it fails part-way; when no write fails that number is one per
\* caption entry with both texts (each in a file of its own), plus one for
\* the Detection shapes and one for the OCR shapes.
ReturnsFilesCreated ==
    DirectoryExported =>
        /\ ret.n = Cardinality(FilesCreated)
        /\ Cardinality({f \in FilesCreated : f[1] = "caption"})
              <= Cardinality(ValidCaptionIndices)
        /\ (ret.n > 0 =>
              /\ {f[2] : f \in {g \in FilesCreated : g[1] = "caption"}}
                    = ValidCaptionIndices
              /\ (<<"detection", 0>> \in FilesCreated
                    <=> ShapesOfTask(label_file.shapes, "Detection") # <<>>)
              /\ (<<"ocr", 0>> \in FilesCreated
                    <=> ShapesOfTask(label_file.shapes, "OCR") # <<>>))

-----------------------------------------------------------------------------
(* The task-grouped documents: one per non-empty partition *)

\* the documents of the task-grouped exports that stand for shapes
TaskGroupedDocuments ==
    LET from(f) == {files[f][i] : i \in DOMAIN files[f]}
    IN  {d \in from(<<"single", 0>>) \cup from(<<"detection", 0>>)
                  \cup from(<<"ocr", 0>>) : d.task \in {"Detection", "OCR"}}

\* the labels of the bbox_2d objects of a response, in order
ObjectLabels(text) ==
    LET at == SelectSeq([i \in DOMAIN text |-> i],
                  LAMBDA i : text[i] = T("],\"label\": \""))
    IN  [k \in DOMAIN at |-> <<text[at[k] + 1]>>]

ObjectCount(text) ==
    Cardinality({i \in DOMAIN text : text[i] = T("{\"bbox_2d\": [")})

\* C26: the Model response of a Detection or OCR document holds one bbox_2d
\* object per shape of the task's partition, in the order of the shapes, so
\* it is not empty.
OneObjectPerShape ==
    \A d \in TaskGroupedDocuments :
        LET partition == ShapesOfTask(label_file.shapes, d.task)
            text == d.conversations[2].value
        IN  /\ text # <<>>
            /\ ObjectCount(text) = Len(partition)
            /\ ObjectLabels(text) = [i \in DOMAIN partition |-> partition[i].label]

-----------------------------------------------------------------------------
(* Two exports of the same label file *)

Exported == op # "none" /\ ~Failure(ret)

\* the files every export of this label file in this mode can leave when
\* no write fails
ExportOutcomes ==
    IF op = "ConversationFormatExporter.export"
    THEN {conversation_export(label_file, NoFiles,
                              include_text_conversations, 0).files}
    ELSE IF op = "ShareGPTExporter.export_single_file"
    THEN {export_single_file(label_file, NoFiles, 0).files}
    ELSE IF op = "ShareGPTExporter.export_to_directory"
    THEN {export_to_directory(label_file, NoFiles, d, o, 0).files :
            d \in LabelOrders(ShapesOfTask(label_file.shapes, "Detection")),
            o \in LabelOrders(ShapesOfTask(label_file.shapes, "OCR"))}
    ELSE IF op = "ShareGPTExporter.export"
    THEN {sharegpt_export(label_file, NoFiles, d, 0).files :
            d \in LabelOrders(label_file.shapes)}
    ELSE {}

\* C24: in every export mode, the documents an export writes are the only
\* ones an export of the same shapes, history and image size can write:
\* same turns, same order, same prompt and response text.
ExportIsDeterministic ==
    Exported => ExportOutcomes = {files}

-----------------------------------------------------------------------------
(* One file for all documents, or one file per document *)

\* what a document says: its task, its prompt and its response
Said(d) == <<d.task, d.conversations[1].value, d.conversations[2].value>>

\* the documents of the directory export, over all its files
DirectoryDocuments ==
    UNION {{files[f][i] : i \in DOMAIN files[f]} :
              f \in {g \in FileNames : g[1] \in {"caption", "detection", "ocr"}}}

\* the documents the single-file export writes for the same label file
SingleFileDocuments ==
    LET written == export_single_file(label_file, NoFiles, 0).files[<<"single", 0>>]
    IN  {written[i] : i \in DOMAIN written}

LabelTokens ==
    UNION {Range(label_file.shapes[i].label) : i \in DOMAIN label_file.shapes}

\* C25: the prompt of a Detection or OCR document names no label of the
\* shapes, and the documents written one file per task say the same (task,
\* prompt, response) as those the single-file export writes for the same
\* label file.
TaskPromptIsFixedTemplate ==
    /\ \A d \in TaskGroupedDocuments :
          Range(d.conversations[1].value) \cap LabelTokens = {}
    /\ (DirectoryExported /\ ret.n > 0) =>
          {Said(d) : d \in DirectoryDocuments}
              = {Said(d) : d \in SingleFileDocuments}

-----------------------------------------------------------------------------
(* Load, export, load again *)

\* C23: a document loaded and exported with no edit gives, at every later
\* load, shapes with the labels and geometry kinds of the first load, and
\* no export writes more turns than the export before it.
RoundTripKeepsShapes ==
    /\ \A i \in DOMAIN load_log : load_log[i] = load_log[1]
    /\ \A i \in DOMAIN export_log : export_log[i] = export_log[1]

-----------------------------------------------------------------------------
(* The caption list and the prompt history *)

\* what get_prompt_history returns
get_prompt_history == _prompt_history

\* C29: the caption list and the prompt history have the same number of
\* entries and row i shows the prompt of entry i; after
\* set_prompt_history(h) the entries are those of h whose category is
\* caption or whose type is text or caption, in the order of h.
ListAndHistoryAligned ==
    /\ Len(_caption_history) = Len(get_prompt_history)
    /\ \A i \in DOMAIN _caption_history :
          _caption_history[i] = get_prompt_history[i].prompt
    /\ widgetOp = "set_prompt_history" =>
          LET wanted == SelectSeq(set_argument,
                           LAMBDA e : \/ Get(e, "category", "") = "caption"
                                      \/ Get(e, "type", "") = "text"
                                      \/ Get(e, "type", "") = "caption")
          IN  [i \in DOMAIN get_prompt_history |->
                  <<get_prompt_history[i].prompt, get_prompt_history[i].description>>]
                = [i \in DOMAIN wanted |-> <<wanted[i].prompt, wanted[i].description>>]

-----------------------------------------------------------------------------
(* The task of a shape and the shapes shown *)

\* the task tag of a shape: on the shape, or else in its other_data
TaskTag(shape) ==
    IF shape.vlm_task # NoTask THEN shape.vlm_task
    ELSE shape.other_data.vlm_task

Filtered ==
    \/ windowOp = "loadShapes"
    \/ windowOp = "_handle_vlm_subcategory_change"
          /\ _current_vlm_task \in {"Detection", "OCR"}

\* C30: a shape the user drew carries the task that was current when it
\* was drawn; right after a switch to Detection or OCR, and right after a
\* load of shapes, a shape is shown exactly when it has no task tag or its
\* tag is the current task.
ShapesTaggedAndFiltered ==
    /\ \A i \in DOMAIN labelList :
          labelList[i].drawn_in # NoTask =>
              labelList[i].shape.vlm_task = labelList[i].drawn_in
    /\ Filtered =>
          \A i \in DOMAIN labelList :
              labelList[i].shape.visible
                  <=> (TaskTag(labelList[i].shape) = NoTask
                         \/ TaskTag(labelList[i].shape) = _current_vlm_task)

\* after a switch, one shape the user drew is shown and another, drawn
\* under the other task, is hidden
ShapesTaggedAndFilteredWitness ==
    /\ windowOp = "_handle_vlm_subcategory_change"
    /\ _current_vlm_task = "OCR"
    /\ \E i, j \in DOMAIN labelList :
          /\ labelList[i].drawn_in = "OCR" /\ labelList[i].shape.visible
          /\ labelList[j].drawn_in = "Detection" /\ ~labelList[j].shape.visible

====
